---- MODULE Spec2Model ----
EXTENDS Integers, Naturals, Sequences, FiniteSets, TLC

(***************************************************************************)
(* Model of zkp-query: the Range Check, Sort, Group-By, Join and           *)
(* Aggregation chips of the circuit layer, the regions they assign and the *)
(* gates that constrain those regions, and the SQL compiler that lowers a  *)
(* query to the operations of these chips.                                 *)
(*                                                                         *)
(* One gate invocation is one action.  An invocation assigns a sequence of *)
(* regions (cells of advice and fixed columns, selectors enabled on rows)  *)
(* and a set of copy constraints; Verifies is the constraint system        *)
(* evaluated on that assignment, as the mock prover evaluates it: every    *)
(* gate whose selector is enabled on a row must vanish there, every lookup *)
(* input must be in the table and every copy constraint must hold.         *)
(*                                                                         *)
(* Numbers.  TLC integers are 32 bits wide, so the 64-bit words and the    *)
(* 255-bit field of the program are scaled: a u64 is a word of NumChunks   *)
(* chunks of ChunkBits bits (the chunk width and the 0..255 lookup table   *)
(* are the program's own), and the field Fr is the prime field of          *)
(* FrModulus elements.  The order of the sizes is the program's:           *)
(* table size < word modulus < field modulus / 4, so that a word embeds    *)
(* in the field and a difference of two words never wraps in the field.    *)
(***************************************************************************)

(* Records.  Every record that becomes part of the state is built by one   *)
(* of these constructors, and every function by a [c \in S |-> e]          *)
(* constructor, so that TLC holds them in its canonical order from the     *)
(* start.                                                                  *)

\* A region: its name, the advice and fixed cells it assigns (a cell is
\* <<column, row>>) and the selectors it enables (<<selector, row>>).
Region(name, advice, fixed, selectors) ==
    [name |-> name, advice |-> advice, fixed |-> fixed, selectors |-> selectors]

\* What one gate invocation leaves behind.
Synthesis(outcome, regions, copies, ret) ==
    [outcome |-> outcome, regions |-> regions, copies |-> copies, ret |-> ret]

\* Arguments of SortChip::sort_and_verify, and the selector its config
\* carries.
SortArgs(sort_selector, input, sorted_values) ==
    [sort_selector |-> sort_selector, input |-> input,
     sorted_values |-> sorted_values]

\* Arguments of GroupByChip::group_and_verify.
GroupByArgs(group_keys) == [group_keys |-> group_keys]

\* The advice of one boundary-check row: the two keys, b and p.
BoundaryRowArgs(v1, v2, b, p) == [v1 |-> v1, v2 |-> v2, b |-> b, p |-> p]

\* Arguments of RangeCheckChip::check_less_than.
LessThanArgs(x, threshold, u) == [x |-> x, threshold |-> threshold, u |-> u]

\* The same with the advice of the check and diff cells.
LessThanRowArgs(x, threshold, u, check, diff) ==
    [x |-> x, threshold |-> threshold, u |-> u, check |-> check, diff |-> diff]

\* Arguments of RangeCheckChip::decompose_64bit.
DecomposeArgs(value) == [value |-> value]

\* struct RangeCheckOp.
RangeCheckOp(value, threshold, u) ==
    [threshold |-> threshold, u |-> u, value |-> value]

\* A column of the catalog and the literal of WHERE col < k.
WhereArgs(column_data, k) == [column_data |-> column_data, k |-> k]

\* Arguments of JoinChip::join_and_verify.
JoinArgs(table1_keys, table1_values, table2_keys, table2_values) ==
    [table1_keys |-> table1_keys, table1_values |-> table1_values,
     table2_keys |-> table2_keys, table2_values |-> table2_values]

\* WhereClause::LessThan, GreaterThan and Equal: kind names the variant.
Comparison(kind, column, value) ==
    [value |-> value, kind |-> kind, column |-> column]

\* WhereClause::And and Or over two boxed clauses.
Connective(kind, left, right) == [kind |-> kind, left |-> left, right |-> right]

\* struct OrderBy.
OrderBy(column, direction) == [column |-> column, direction |-> direction]

\* struct AggregationClause.
AggregationClause(function, column) == [column |-> column, function |-> function]

\* struct JoinCondition.
JoinCondition(left_column, right_column) ==
    [left_column |-> left_column, right_column |-> right_column]

\* struct JoinClause (join_type is never read by the compiler).
JoinClause(table, on) == [table |-> table, on |-> on]

\* struct SQLQuery, the fields the compiler reads.  An Option is a
\* sequence: None is <<>> and Some(v) is <<v>>.
SQLQuery(from, where_clause, group_by, order_by, joins, aggregations) ==
    [from |-> from, where_clause |-> where_clause, group_by |-> group_by,
     order_by |-> order_by, joins |-> joins, aggregations |-> aggregations]

\* struct SortOp.
SortOp(input, sorted_output) == [input |-> input, sorted_output |-> sorted_output]

\* struct GroupByOp.
GroupByOp(group_keys) == [group_keys |-> group_keys]

\* struct JoinOp.
JoinOp(table1_keys, table1_values, table2_keys, table2_values) ==
    [table1_keys |-> table1_keys, table1_values |-> table1_values,
     table2_keys |-> table2_keys, table2_values |-> table2_values]

\* struct CompiledQuery.
CompiledQuery(range_checks, sorts, group_bys, joins, aggregations) ==
    [joins |-> joins, aggregations |-> aggregations,
     range_checks |-> range_checks, sorts |-> sorts, group_bys |-> group_bys]

\* Arguments of SQLCompiler::compile.
CompileArgs(query, table_data) == [query |-> query, table_data |-> table_data]

\* Result<CompiledQuery, String>: compiled is <<the query>> on Ok and <<>>
\* otherwise.
CompileResult(outcome, compiled) == [outcome |-> outcome, compiled |-> compiled]

\* The ops one clause appends, or the failure that ends the compilation.
Emitted(outcome, ops) == [outcome |-> outcome, ops |-> ops]

\* struct PoneglyphCircuit.
PoneglyphCircuit(db_commitment, query_result, range_checks, sorts, group_bys, joins, aggregations) ==
    [joins |-> joins, aggregations |-> aggregations,
     range_checks |-> range_checks, sorts |-> sorts, group_bys |-> group_bys,
     db_commitment |-> db_commitment, query_result |-> query_result]

\* A circuit and the public inputs it is proved and verified against: one
\* vector of rows per instance column.
SynthesizeArgs(circuit, public_inputs) ==
    [circuit |-> circuit, public_inputs |-> public_inputs]

\* struct DatabaseCommitment.
DatabaseCommitment(commitment, data_hash) ==
    [commitment |-> commitment, data_hash |-> data_hash]

\* The list a commitment is created from and the list of a second call.
CommitmentArgs(data, other) == [data |-> data, other |-> other]

\* Arguments of PoneglyphConfig::get_public_input_layout.
PublicInputArgs(db_commitment, query_result) ==
    [db_commitment |-> db_commitment, query_result |-> query_result]

\* Arguments of BatchProver::prove_batch.
BatchArgs(circuits, public_inputs) ==
    [public_inputs |-> public_inputs, circuits |-> circuits]

\* One symbol of a proof: the bytes a transcript holds are determined by
\* the circuit, the instances and the randomness drawn while proving.
ProofPart(circuit, public_inputs, rng, part) ==
    [circuit |-> circuit, public_inputs |-> public_inputs, rng |-> rng,
     part |-> part]

\* Result<Vec<u8>, Error> of Prover::prove.
Proved(outcome, proof) == [outcome |-> outcome, proof |-> proof]

\* A run of prove_batch: its outcome, the value it returns and the vector
\* all_proofs it has built.
Batch(outcome, ret, all_proofs) ==
    [outcome |-> outcome, ret |-> ret, all_proofs |-> all_proofs]

---------------------------------------------------------------------------
(* Sizes.                                                                  *)

\* Width of one chunk in bits (the 0xFF mask and the shift by i * 8).
ChunkBits == 8

\* Number of chunk columns of a decomposition (scaled from 8).
NumChunks == 3

\* Number of rows of the lookup table: the values 0..255.
TableSize == 256

\* Modulus of unsigned word arithmetic (scaled from 2^64).
U64Modulus == 2 ^ (ChunkBits * NumChunks)

\* Order of the field Fr (a prime, scaled from the Pallas base field).
FrModulus == 1073741789

\* Bounds of the inputs the model enumerates.
MaxSortLen == 3
MaxKeysLen == 3
MaxJoinLen == 2
MaxColumnLen == 3
MaxAggLen == 3
MaxDataLen == 2
MaxBatchLen == 3

Min(a, b) == IF a < b THEN a ELSE b
Max(a, b) == IF a < b THEN b ELSE a

SeqsUpTo(S, n) == UNION {[1..k -> S] : k \in 0..n}

---------------------------------------------------------------------------
(* Field arithmetic of Fr.                                                 *)

\* Fr::from(u64)
FrFrom(v) == v % FrModulus

FrAdd(a, b) == (a + b) % FrModulus

FrSub(a, b) == ((a - b) + FrModulus) % FrModulus

FrNeg(a) == (FrModulus - a) % FrModulus

\* a * b in Fr, by doubling, so that no intermediate exceeds 2 * FrModulus.
RECURSIVE FrMul(_, _)
FrMul(a, b) ==
    IF b = 0 THEN 0
    ELSE LET h == FrMul(a, b \div 2)
             d == (h + h) % FrModulus
         IN  IF b % 2 = 1 THEN (d + a) % FrModulus ELSE d

\* Extended Euclid on (FrModulus, a): the Bezout coefficient of a.
RECURSIVE Bezout(_, _, _, _)
Bezout(r0, r1, t0, t1) ==
    IF r1 = 0 THEN t0
    ELSE Bezout(r1, r0 % r1, t1, t0 - (r0 \div r1) * t1)

\* Field::invert().unwrap_or(Fr::ZERO): the inverse, and 0 for 0.
FrInvertOrZero(a) ==
    IF a = 0 THEN 0
    ELSE ((Bezout(FrModulus, a, 0, 1) % FrModulus) + FrModulus) % FrModulus

\* The lookup table column: Fr::from(i) at row i, for i in 0..256.
LookupTable == {FrFrom(i) : i \in 0..(TableSize - 1)}

---------------------------------------------------------------------------
(* Unsigned word arithmetic.                                               *)

U64Max == U64Modulus - 1

\* a - b on u64 wraps when overflow checks are off.
U64WrappingSub(a, b) == ((a - b) + U64Modulus) % U64Modulus

\* a - b on u64 overflows exactly when b > a.
U64SubOverflows(a, b) == b > a

\* struct AggregationOp, the arguments of
\* AggregationChip::aggregate_and_verify.
AggregationOp(group_keys, values, agg_type) ==
    [group_keys |-> group_keys, values |-> values, agg_type |-> agg_type]

---------------------------------------------------------------------------
(* Column and selector plan of the chips.                                  *)

RangeCheckConfig ==
    [chunk_columns |-> [i \in 1..NumChunks |-> i - 1],
     check_column  |-> 8,
     x_column      |-> 9,
     diff_column   |-> 8,
     threshold_column |-> 0,
     u_column      |-> 1,
     selector      |-> "range_check_selector",
     less_than_selector |-> "less_than_selector",
     decomposition_selector |-> "decomposition_selector",
     diff_lookup_selector |-> "diff_lookup_selector"]

\* The config SortChip::configure returns: sort_selector is the selector
\* it creates for the gate "sort order check".
SortConfig ==
    [input_column  |-> 2,
     output_column |-> 3,
     diff_column   |-> 4,
     sort_selector |-> "sort_selector"]

\* The config PoneglyphCircuit::synthesize builds for the Sort chip:
\* sort_selector is the selector PoneglyphConfig::configure creates, which
\* no gate queries.
SynthesizeSortConfig ==
    [input_column  |-> 2,
     output_column |-> 3,
     diff_column   |-> 4,
     sort_selector |-> "config.sort_selector"]

GroupByConfig ==
    [group_key_column |-> 5,
     boundary_column  |-> 6,
     inverse_column   |-> 7,
     boundary_selector |-> "boundary_selector"]

JoinConfig ==
    [table1_key_column   |-> 10,
     table1_value_column |-> 11,
     table2_key_column   |-> 12,
     table2_value_column |-> 13,
     match_column        |-> 14,
     join_selector       |-> "join_selector",
     deduplication_selector |-> "deduplication_selector"]

AggregationConfig ==
    [value_column   |-> 8,
     result_column  |-> 9,
     sum_selector   |-> "sum_selector",
     count_selector |-> "count_selector",
     max_selector   |-> "max_selector",
     min_selector   |-> "min_selector",
     group_by_config |-> GroupByConfig]

---------------------------------------------------------------------------
(* Reading a region.                                                       *)

NoCells == [c \in {} |-> 0]

Assigned(r, col, row) == <<col, row>> \in DOMAIN r.advice

Adv(r, col, row) == r.advice[<<col, row>>]

FixedAssigned(r, col, row) == <<col, row>> \in DOMAIN r.fixed

Fix(r, col, row) == r.fixed[<<col, row>>]

Panicked == Synthesis("panic", <<>>, {}, <<>>)

SynthesisError == Synthesis("error", <<>>, {}, <<>>)

---------------------------------------------------------------------------
(* Range Check chip.                                                       *)

\* Mutant of Chunk: the shifted value is not masked to one chunk.
ChunkUnmasked(v, i) == v \div (2 ^ (i * ChunkBits))

\* ((v >> (i * 8)) & 0xFF) as u8, for chunk index i = 0, 1, ...
Chunk(v, i) == (v \div (2 ^ (i * ChunkBits))) % (2 ^ ChunkBits)

\* Index (from 0) of the chunk a chunk column holds.
ChunkIndex(col) ==
    (CHOOSE i \in 1..NumChunks : RangeCheckConfig.chunk_columns[i] = col) - 1

\* The region "decompose 64bit": the value and all chunks on row 1, the
\* decomposition selector and the chunk-lookup selector enabled on row 1.
DecomposeRegion(value) ==
    LET cfg   == RangeCheckConfig
        cells == {<<cfg.x_column, 1>>}
                 \cup {<<cfg.chunk_columns[i], 1>> : i \in 1..NumChunks}
    IN  Region("decompose 64bit",
               [c \in cells |->
                    IF c[1] = cfg.x_column THEN FrFrom(value)
                    ELSE FrFrom(Chunk(value, ChunkIndex(c[1])))],
               NoCells,
               {<<cfg.decomposition_selector, 1>>, <<cfg.selector, 1>>})

\* RangeCheckChip::decompose_64bit: returns the chunk cells.
Decompose64bit(value) ==
    Synthesis("ok", <<DecomposeRegion(value)>>, {},
              [i \in 1..NumChunks |-> FrFrom(Chunk(value, i - 1))])

\* Sum of chunk * 2^(8 i) over the chunk columns up to index n, in Fr.
RECURSIVE ChunkSum(_, _, _)
ChunkSum(r, row, n) ==
    IF n = 0 THEN 0
    ELSE FrAdd(ChunkSum(r, row, n - 1),
               FrMul(Adv(r, RangeCheckConfig.chunk_columns[n], row),
                     FrFrom(2 ^ ((n - 1) * ChunkBits))))

\* Gate "decomposition sum": s * (value - sum) = 0.
DecompositionSumGate(r, row) ==
    /\ Assigned(r, RangeCheckConfig.x_column, row)
    /\ \A i \in 1..NumChunks : Assigned(r, RangeCheckConfig.chunk_columns[i], row)
    /\ FrSub(Adv(r, RangeCheckConfig.x_column, row), ChunkSum(r, row, NumChunks)) = 0

\* A cell as a lookup reads it: an unassigned cell reads as zero.
CellOrZero(r, col, row) == IF Assigned(r, col, row) THEN Adv(r, col, row) ELSE 0

\* Lookup of every chunk column: selector * chunk is in the table.
ChunkLookup(r, row) ==
    \A i \in 1..NumChunks :
        CellOrZero(r, RangeCheckConfig.chunk_columns[i], row) \in LookupTable

\* The two polynomials of gate "x < t constraint" on given values.
LessThanBoolean(check) == FrMul(check, FrSub(1, check)) = 0

LessThanDiff(check, x, t, u, diff) ==
    FrSub(diff, FrSub(FrAdd(check, FrSub(x, t)), u)) = 0

\* Gate "x < t constraint": check, x, t, u on the row, diff on the next row.
LessThanGate(r, row) ==
    LET cfg == RangeCheckConfig IN
    /\ Assigned(r, cfg.check_column, row)
    /\ Assigned(r, cfg.x_column, row)
    /\ Assigned(r, cfg.diff_column, row + 1)
    /\ FixedAssigned(r, cfg.threshold_column, row)
    /\ FixedAssigned(r, cfg.u_column, row)
    /\ LessThanBoolean(Adv(r, cfg.check_column, row))
    /\ LessThanDiff(Adv(r, cfg.check_column, row), Adv(r, cfg.x_column, row),
                    Fix(r, cfg.threshold_column, row), Fix(r, cfg.u_column, row),
                    Adv(r, cfg.diff_column, row + 1))

\* Lookup of diff: selector * diff is in the table.
DiffLookup(r, row) ==
    CellOrZero(r, RangeCheckConfig.diff_column, row) \in LookupTable

\* Mutant of CheckValue: the comparison is x <= threshold.
CheckValueInclusive(x, threshold) == IF x <= threshold THEN FrFrom(1) ELSE FrFrom(0)

\* The check witness: 1 if x < threshold, else 0.
CheckValue(x, threshold) == IF x < threshold THEN FrFrom(1) ELSE FrFrom(0)

\* The diff witness: check + (x - t) - u, computed in Fr.
DiffValue(x, threshold, u) ==
    FrSub(FrAdd(CheckValue(x, threshold), FrSub(FrFrom(x), FrFrom(threshold))),
          FrFrom(u))

\* The region "check x < t".
LessThanRegion(x, threshold, u) ==
    LET cfg == RangeCheckConfig IN
    Region("check x < t",
           [c \in {<<cfg.x_column, 0>>, <<cfg.check_column, 0>>,
                   <<cfg.diff_column, 1>>} |->
                IF c = <<cfg.x_column, 0>> THEN FrFrom(x)
                ELSE IF c = <<cfg.check_column, 0>> THEN CheckValue(x, threshold)
                ELSE DiffValue(x, threshold, u)],
           [c \in {<<cfg.threshold_column, 0>>, <<cfg.u_column, 0>>} |->
                IF c = <<cfg.threshold_column, 0>> THEN FrFrom(threshold)
                ELSE FrFrom(u)],
           {<<cfg.less_than_selector, 0>>}
             \cup (IF u < TableSize THEN {<<cfg.diff_lookup_selector, 1>>} ELSE {}))

\* RangeCheckChip::check_less_than: returns the check cell.
CheckLessThan(x, threshold, u) ==
    Synthesis("ok", <<LessThanRegion(x, threshold, u)>>, {},
              <<CheckValue(x, threshold)>>)

\* The region "check x < t" under an arbitrary advice assignment of the
\* check and diff cells: x, t and u as check_less_than assigns them.
LessThanWitnessRegion(x, threshold, u, check, diff) ==
    LET cfg == RangeCheckConfig IN
    Region("check x < t",
           [c \in {<<cfg.x_column, 0>>, <<cfg.check_column, 0>>,
                   <<cfg.diff_column, 1>>} |->
                IF c = <<cfg.x_column, 0>> THEN FrFrom(x)
                ELSE IF c = <<cfg.check_column, 0>> THEN check
                ELSE diff],
           [c \in {<<cfg.threshold_column, 0>>, <<cfg.u_column, 0>>} |->
                IF c = <<cfg.threshold_column, 0>> THEN FrFrom(threshold)
                ELSE FrFrom(u)],
           {<<cfg.less_than_selector, 0>>}
             \cup (IF u < TableSize THEN {<<cfg.diff_lookup_selector, 1>>} ELSE {}))

\* Mutant of CompileLessThan: u is the wrapping difference on every row.
CompileLessThanUnclamped(column_data, value) ==
    [i \in 1..Len(column_data) |->
        RangeCheckOp(column_data[i], value,
                     (value - column_data[i] + U64Modulus) % U64Modulus)]

\* SQLCompiler::compile_where_clause, LessThan: one op per row of the
\* column, with u = value - val when val < value, else 0.
CompileLessThan(column_data, value) ==
    [i \in 1..Len(column_data) |->
        RangeCheckOp(column_data[i], value,
                     IF column_data[i] < value THEN value - column_data[i] ELSE 0)]

\* PoneglyphCircuit::synthesize, range-check loop: check_less_than on
\* every op in order, each in its own region.
SynthesizeRangeChecks(range_checks) ==
    Synthesis("ok",
              [i \in 1..Len(range_checks) |->
                  LessThanRegion(range_checks[i].value, range_checks[i].threshold,
                                 range_checks[i].u)],
              {},
              [i \in 1..Len(range_checks) |->
                  CheckValue(range_checks[i].value, range_checks[i].threshold)])

---------------------------------------------------------------------------
(* Sort chip.                                                              *)

\* Gate "sort order check": s * (diff - (b_i_next - b_i)) = 0.
SortOrderGate(r, row) ==
    /\ Assigned(r, SortConfig.output_column, row)
    /\ Assigned(r, SortConfig.output_column, row + 1)
    /\ Assigned(r, SortConfig.diff_column, row)
    /\ FrSub(Adv(r, SortConfig.diff_column, row),
             FrSub(Adv(r, SortConfig.output_column, row + 1),
                   Adv(r, SortConfig.output_column, row))) = 0

\* diff_value = sorted_values[i + 1] - sorted_values[i], for i = 1..n-1 here.
SortDiffValue(sorted_values, i) ==
    U64WrappingSub(sorted_values[i + 1], sorted_values[i])

\* Whether computing some diff_value overflows the unsigned subtraction.
SortDiffOverflows(sorted_values) ==
    \E i \in 1..(Len(sorted_values) - 1) :
        U64SubOverflows(sorted_values[i + 1], sorted_values[i])

\* SortChip::assign_input: the region "input assignment".
InputRegion(input) ==
    Region("input assignment",
           [c \in {<<SortConfig.input_column, i - 1>> : i \in 1..Len(input)} |->
                FrFrom(input[c[2] + 1])],
           NoCells, {})

\* The region "sorted input assignment": sorted_values in the input column,
\* at the offsets after the input's length.
SortedInputRegion(input, sorted_values) ==
    Region("sorted input assignment",
           [c \in {<<SortConfig.input_column, Len(input) + i - 1>> :
                       i \in 1..Len(sorted_values)} |->
                FrFrom(sorted_values[c[2] - Len(input) + 1])],
           NoCells, {})

\* The region "output and sort checks": sorted_values in the output column,
\* the diffs in the diff column, the sort selector on all rows but the last.
OutputRegion(sorted_values, sort_selector) ==
    LET n == Len(sorted_values) IN
    Region("output and sort checks",
           [c \in {<<SortConfig.output_column, i - 1>> : i \in 1..n}
                  \cup {<<SortConfig.diff_column, i - 1>> : i \in 1..(n - 1)} |->
                IF c[1] = SortConfig.output_column
                THEN FrFrom(sorted_values[c[2] + 1])
                ELSE FrFrom(SortDiffValue(sorted_values, c[2] + 1))],
           NoCells,
           {<<sort_selector, i - 1>> : i \in 1..(n - 1)})

\* SortChip::enable_permutation: one copy constraint per index between the
\* sorted-input cell and the output cell.  A cell reference is
\* <<region index, column, row>>; base is the number of regions before.
PermutationCopies(base, input, sorted_values) ==
    {<< <<base + 2, SortConfig.input_column, Len(input) + i - 1>>,
        <<base + 3, SortConfig.output_column, i - 1>> >> :
        i \in 1..Len(sorted_values)}

\* SortChip::sort_and_verify.  The loop bound len - 1 and the subtraction
\* of adjacent values panic on overflow when overflow checks are on; with
\* them off the subtraction wraps and the loop over an empty sorted_values
\* runs into an index out of bounds.  sort_selector is the selector of the
\* chip's config.
SortAndVerify(input, sorted_values, sort_selector, checks, base) ==
    IF Len(sorted_values) = 0 THEN Panicked
    ELSE IF checks /\ SortDiffOverflows(sorted_values) THEN Panicked
    ELSE Synthesis("ok",
             <<InputRegion(input),
               SortedInputRegion(input, sorted_values),
               OutputRegion(sorted_values, sort_selector)>>
               \o [i \in 1..(Len(sorted_values) - 1) |->
                       DecomposeRegion(SortDiffValue(sorted_values, i))]
               \o <<Region("permutation verification", NoCells, NoCells, {})>>,
             PermutationCopies(base, input, sorted_values),
             [i \in 1..Len(sorted_values) |-> FrFrom(sorted_values[i])])

---------------------------------------------------------------------------
(* Group-By chip.                                                          *)

\* The three polynomials of gate "boundary check" on given values, with
\* diff = v2 - v1: the boolean check, the definition of b and the inverse
\* check.
BoundaryBoolean(b) == FrMul(b, FrSub(1, b)) = 0

BoundaryDefinition(v1, v2, b, p) ==
    FrSub(b, FrSub(1, FrMul(FrSub(v2, v1), p))) = 0

BoundaryInverse(v1, v2, b, p) ==
    FrSub(FrMul(p, FrSub(v2, v1)), FrSub(1, b)) = 0

\* Gate "boundary check": keys on the row and the next, b and p on the row.
BoundaryCheckGate(r, row) ==
    LET cfg == GroupByConfig IN
    /\ Assigned(r, cfg.group_key_column, row)
    /\ Assigned(r, cfg.group_key_column, row + 1)
    /\ Assigned(r, cfg.boundary_column, row)
    /\ Assigned(r, cfg.inverse_column, row)
    /\ BoundaryBoolean(Adv(r, cfg.boundary_column, row))
    /\ BoundaryDefinition(Adv(r, cfg.group_key_column, row),
                          Adv(r, cfg.group_key_column, row + 1),
                          Adv(r, cfg.boundary_column, row),
                          Adv(r, cfg.inverse_column, row))
    /\ BoundaryInverse(Adv(r, cfg.group_key_column, row),
                       Adv(r, cfg.group_key_column, row + 1),
                       Adv(r, cfg.boundary_column, row),
                       Adv(r, cfg.inverse_column, row))

\* Signed words: `v as i64` and the range of i64 (scaled like u64).
I64Min == 0 - (U64Modulus \div 2)

I64Max == (U64Modulus \div 2) - 1

AsI64(v) == IF v > I64Max THEN v - U64Modulus ELSE v

I64Wrap(x) == ((x - I64Min) % U64Modulus) + I64Min

I64Overflows(x) == x < I64Min \/ x > I64Max

\* `x as u64` of a signed word.
AsU64(x) == (x + U64Modulus) % U64Modulus

\* diff = v2 as i64 - v1 as i64 (wrapped).
GroupDiff(v1, v2) == I64Wrap(AsI64(v2) - AsI64(v1))

\* Whether the witness computation for the pair overflows: the signed
\* subtraction, or the negation of a negative diff.
GroupDiffOverflows(v1, v2) ==
    \/ I64Overflows(AsI64(v2) - AsI64(v1))
    \/ (GroupDiff(v1, v2) < 0 /\ I64Overflows(0 - GroupDiff(v1, v2)))

\* diff as a field element: Fr::from(diff as u64) for a positive diff,
\* -Fr::from((-diff) as u64) for a negative one.
GroupDiffField(v1, v2) ==
    LET diff == GroupDiff(v1, v2) IN
    IF diff > 0 THEN FrFrom(AsU64(diff))
    ELSE FrNeg(FrFrom(AsU64(I64Wrap(0 - diff))))

\* The boundary witness of a pair: ONE when diff = 0, else ZERO.
BoundaryValue(v1, v2) == IF GroupDiff(v1, v2) = 0 THEN 1 ELSE 0

\* The inverse witness of a pair: ZERO when diff = 0, else 1 / diff.
InverseValue(v1, v2) ==
    IF GroupDiff(v1, v2) = 0 THEN 0 ELSE FrInvertOrZero(GroupDiffField(v1, v2))

\* The region "group and verify".
GroupRegion(group_keys) ==
    LET cfg == GroupByConfig
        n   == Len(group_keys)
    IN  IF n = 0 THEN Region("group and verify", NoCells, NoCells, {})
        ELSE IF n = 1 THEN
            Region("group and verify",
                   [c \in {<<cfg.group_key_column, 0>>, <<cfg.boundary_column, 0>>,
                           <<cfg.inverse_column, 0>>} |->
                        IF c[1] = cfg.group_key_column THEN FrFrom(group_keys[1])
                        ELSE 0],
                   NoCells, {})
        ELSE
            Region("group and verify",
                   [c \in {<<cfg.group_key_column, i - 1>> : i \in 1..n}
                          \cup {<<cfg.boundary_column, i - 1>> : i \in 1..(n - 1)}
                          \cup {<<cfg.inverse_column, i - 1>> : i \in 1..(n - 1)} |->
                        IF c[1] = cfg.group_key_column
                        THEN FrFrom(group_keys[c[2] + 1])
                        ELSE IF c[1] = cfg.boundary_column
                        THEN BoundaryValue(group_keys[c[2] + 1], group_keys[c[2] + 2])
                        ELSE InverseValue(group_keys[c[2] + 1], group_keys[c[2] + 2])],
                   NoCells,
                   {<<cfg.boundary_selector, i - 1>> : i \in 1..(n - 1)})

\* Mutant of BoundaryCells: no case for one key, which then yields no cell.
BoundaryCellsPerPair(group_keys) ==
    [i \in 1..(Len(group_keys) - 1) |->
         BoundaryValue(group_keys[i], group_keys[i + 1])]

\* The boundary cells group_and_verify returns.
BoundaryCells(group_keys) ==
    IF Len(group_keys) = 0 THEN <<>>
    ELSE IF Len(group_keys) = 1 THEN <<0>>
    ELSE [i \in 1..(Len(group_keys) - 1) |->
              BoundaryValue(group_keys[i], group_keys[i + 1])]

\* GroupByChip::group_and_verify.
GroupAndVerify(group_keys, checks) ==
    IF /\ checks
       /\ \E i \in 1..(Len(group_keys) - 1) :
              GroupDiffOverflows(group_keys[i], group_keys[i + 1])
    THEN Panicked
    ELSE Synthesis("ok", <<GroupRegion(group_keys)>>, {}, BoundaryCells(group_keys))

\* One row of the boundary gate under an arbitrary advice assignment: the
\* keys v1, v2 on rows 0 and 1, b and p on row 0, the selector on row 0.
BoundaryRowRegion(v1, v2, b, p) ==
    LET cfg == GroupByConfig IN
    Region("group and verify",
           [c \in {<<cfg.group_key_column, 0>>, <<cfg.group_key_column, 1>>,
                   <<cfg.boundary_column, 0>>, <<cfg.inverse_column, 0>>} |->
                IF c = <<cfg.group_key_column, 0>> THEN FrFrom(v1)
                ELSE IF c = <<cfg.group_key_column, 1>> THEN FrFrom(v2)
                ELSE IF c = <<cfg.boundary_column, 0>> THEN b
                ELSE p],
           NoCells,
           {<<cfg.boundary_selector, 0>>})

---------------------------------------------------------------------------
(* Join chip.                                                              *)

\* Gate "key comparison": s * match_flag * (key1 - key2) = 0.
KeyComparisonGate(r, row) ==
    LET cfg == JoinConfig IN
    /\ Assigned(r, cfg.table1_key_column, row)
    /\ Assigned(r, cfg.table2_key_column, row)
    /\ Assigned(r, cfg.match_column, row)
    /\ FrMul(Adv(r, cfg.match_column, row),
             FrSub(Adv(r, cfg.table1_key_column, row),
                   Adv(r, cfg.table2_key_column, row))) = 0

\* Gate "match flag boolean": s * match_flag * (1 - match_flag) = 0.
MatchBooleanGate(r, row) ==
    /\ Assigned(r, JoinConfig.match_column, row)
    /\ FrMul(Adv(r, JoinConfig.match_column, row),
             FrSub(1, Adv(r, JoinConfig.match_column, row))) = 0

\* Gate "deduplication check": s * 0 = 0.
DeduplicationGate(r, row) == FrMul(1, 0) = 0

\* Vec::sort on u64: the values in ascending order.
RECURSIVE SortedVec(_)
SortedVec(s) ==
    IF Len(s) = 0 THEN <<>>
    ELSE LET i == CHOOSE j \in 1..Len(s) : \A l \in 1..Len(s) : s[j] <= s[l]
         IN  <<s[i]>> \o SortedVec(SubSeq(s, 1, i - 1) \o SubSeq(s, i + 1, Len(s)))

\* Row i (from 0) of a column vector, 0 when the vector is shorter.
PaddedAt(column, i) == IF i < Len(column) THEN column[i + 1] ELSE 0

\* Mutant of JoinMatchFlag: the padded keys are compared on every row.
JoinMatchFlagPadded(table1_keys, table2_keys, i) ==
    IF PaddedAt(table1_keys, i) = PaddedAt(table2_keys, i) THEN 1 ELSE 0

\* match_flag of row i (from 0): ONE when both tables have the row and the
\* keys are equal, else ZERO.
JoinMatchFlag(table1_keys, table2_keys, i) ==
    IF i < Len(table1_keys) /\ i < Len(table2_keys)
    THEN (IF table1_keys[i + 1] = table2_keys[i + 1] THEN 1 ELSE 0)
    ELSE 0

\* JoinChip::assign_join_with_constraints: the region "assign join".
JoinRegion(table1_keys, table1_values, table2_keys, table2_values) ==
    LET cfg     == JoinConfig
        max_len == Max(Len(table1_keys), Len(table2_keys))
        columns == {cfg.table1_key_column, cfg.table1_value_column,
                    cfg.table2_key_column, cfg.table2_value_column,
                    cfg.match_column}
    IN  Region("assign join",
               [c \in {<<col, i>> : col \in columns, i \in 0..(max_len - 1)} |->
                    IF c[1] = cfg.table1_key_column
                    THEN FrFrom(PaddedAt(table1_keys, c[2]))
                    ELSE IF c[1] = cfg.table1_value_column
                    THEN FrFrom(PaddedAt(table1_values, c[2]))
                    ELSE IF c[1] = cfg.table2_key_column
                    THEN FrFrom(PaddedAt(table2_keys, c[2]))
                    ELSE IF c[1] = cfg.table2_value_column
                    THEN FrFrom(PaddedAt(table2_values, c[2]))
                    ELSE JoinMatchFlag(table1_keys, table2_keys, c[2])],
               NoCells,
               {<<cfg.join_selector, i>> :
                    i \in 0..(Min(Len(table1_keys), Len(table2_keys)) - 1)})

\* The match cells assign_join_with_constraints returns.
MatchCells(table1_keys, table2_keys) ==
    [i \in 1..Max(Len(table1_keys), Len(table2_keys)) |->
        JoinMatchFlag(table1_keys, table2_keys, i - 1)]

\* An invocation that assigned nothing.
Nothing == Synthesis("ok", <<>>, {}, <<>>)

\* s followed by t (the ? operator: the first failure ends the call).
Then(s, t) ==
    IF s.outcome # "ok" THEN s
    ELSE IF t.outcome # "ok" THEN t
    ELSE Synthesis("ok", s.regions \o t.regions, s.copies \cup t.copies, t.ret)

\* The keys of one table at the rows, below both lengths, where the two
\* tables' keys differ: T_miss1 (of table1_keys) and T_miss2.
RECURSIVE MissKeys(_, _, _)
MissKeys(keys, other_keys, n) ==
    IF n = 0 THEN <<>>
    ELSE MissKeys(keys, other_keys, n - 1)
           \o (IF keys[n] # other_keys[n] THEN <<keys[n]>> ELSE <<>>)

\* A table passed through the Sort gate, unless it is empty.
SortTable(keys, checks, base) ==
    IF Len(keys) = 0 THEN Nothing
    ELSE SortAndVerify(keys, SortedVec(keys), SortConfig.sort_selector,
                       checks, base)

\* JoinChip::verify_deduplication, after `before`.
VerifyDeduplication(before, table1_keys, table2_keys, checks) ==
    LET min_len == Min(Len(table1_keys), Len(table2_keys))
        t_miss1 == MissKeys(table1_keys, table2_keys, min_len)
        t_miss2 == MissKeys(table2_keys, table1_keys, min_len)
        first   == Then(before, SortTable(t_miss1, checks, Len(before.regions)))
    IN  IF before.outcome # "ok" THEN before
        ELSE IF first.outcome # "ok" THEN first
        ELSE Then(first, SortTable(t_miss2, checks, Len(first.regions)))

\* JoinChip::join_and_verify: both tables through the Sort gate, the join
\* region on the keys as passed in, the deduplication sorts; returns the
\* match cells.
JoinAndVerify(table1_keys, table1_values, table2_keys, table2_values, checks) ==
    LET sort1  == SortTable(table1_keys, checks, 0)
        sort2  == Then(sort1, SortTable(table2_keys, checks, Len(sort1.regions)))
        joined == Then(sort2,
                       Synthesis("ok",
                                 <<JoinRegion(table1_keys, table1_values,
                                              table2_keys, table2_values)>>,
                                 {}, MatchCells(table1_keys, table2_keys)))
        dedup  == VerifyDeduplication(joined, table1_keys, table2_keys, checks)
    IN  IF dedup.outcome # "ok" THEN dedup
        ELSE Synthesis("ok", dedup.regions, dedup.copies,
                       MatchCells(table1_keys, table2_keys))

---------------------------------------------------------------------------
(* Aggregation chip.                                                       *)

\* The aggregation kinds aggregate_and_verify matches on.
AggTypes == {"sum", "count", "max", "min"}

\* The cells the four aggregation gates query on a row.
AggregationCellsAssigned(r, row) ==
    LET cfg == AggregationConfig IN
    /\ Assigned(r, cfg.value_column, row)
    /\ Assigned(r, cfg.result_column, row)
    /\ Assigned(r, cfg.result_column, row - 1)
    /\ Assigned(r, cfg.group_by_config.boundary_column, row)

\* Gate "sum aggregation":
\* s * (result - (b * value + (1 - b) * (prev_result + value))) = 0.
SumGate(r, row) ==
    LET cfg == AggregationConfig
        b   == Adv(r, cfg.group_by_config.boundary_column, row)
    IN  /\ AggregationCellsAssigned(r, row)
        /\ FrSub(Adv(r, cfg.result_column, row),
                 FrAdd(FrMul(b, Adv(r, cfg.value_column, row)),
                       FrMul(FrSub(1, b),
                             FrAdd(Adv(r, cfg.result_column, row - 1),
                                   Adv(r, cfg.value_column, row))))) = 0

\* Gate "count aggregation":
\* s * (result - (b * 1 + (1 - b) * (prev_result + 1))) = 0.
CountGate(r, row) ==
    LET cfg == AggregationConfig
        b   == Adv(r, cfg.group_by_config.boundary_column, row)
    IN  /\ Assigned(r, cfg.result_column, row)
        /\ Assigned(r, cfg.result_column, row - 1)
        /\ Assigned(r, cfg.group_by_config.boundary_column, row)
        /\ FrSub(Adv(r, cfg.result_column, row),
                 FrAdd(FrMul(b, 1),
                       FrMul(FrSub(1, b),
                             FrAdd(Adv(r, cfg.result_column, row - 1), 1)))) = 0

\* Gates "max aggregation" and "min aggregation", the same polynomial:
\* s * (result - (b * value + (1 - b) * result)) = 0.
MaxMinGate(r, row) ==
    LET cfg == AggregationConfig
        b   == Adv(r, cfg.group_by_config.boundary_column, row)
    IN  /\ AggregationCellsAssigned(r, row)
        /\ FrSub(Adv(r, cfg.result_column, row),
                 FrAdd(FrMul(b, Adv(r, cfg.value_column, row)),
                       FrMul(FrSub(1, b), Adv(r, cfg.result_column, row)))) = 0

\* Mutant of AggregationBoundary: the polarity of group_and_verify, ONE
\* when the two keys are equal.
AggregationBoundaryOnEqual(group_keys, i) ==
    IF group_keys[i] = group_keys[i - 1] THEN 1 ELSE 0

\* The boundary of row i (from 2 here) in aggregate_and_verify: ONE when
\* group_keys[i] differs from the key before it, else ZERO.
AggregationBoundary(group_keys, i) ==
    IF group_keys[i] # group_keys[i - 1] THEN 1 ELSE 0

\* result_values[i] (i from 1 here), with wrapping u64 addition.
RECURSIVE ResultValue(_, _, _, _)
ResultValue(group_keys, values, agg_type, i) ==
    IF i = 1 \/ AggregationBoundary(group_keys, i) = 1
    THEN (IF agg_type = "count" THEN 1 ELSE values[i])
    ELSE LET current_result == ResultValue(group_keys, values, agg_type, i - 1)
         IN  CASE agg_type = "sum"   -> (current_result + values[i]) % U64Modulus
               [] agg_type = "count" -> (current_result + 1) % U64Modulus
               [] agg_type = "max"   -> Max(current_result, values[i])
               [] OTHER              -> Min(current_result, values[i])

\* Whether an addition of the result computation overflows u64.
ResultOverflows(group_keys, values, agg_type) ==
    \E i \in 2..Len(group_keys) :
        /\ AggregationBoundary(group_keys, i) = 0
        /\ \/ /\ agg_type = "sum"
              /\ ResultValue(group_keys, values, agg_type, i - 1) + values[i]
                     > U64Max
           \/ /\ agg_type = "count"
              /\ ResultValue(group_keys, values, agg_type, i - 1) + 1 > U64Max

\* The enabled selector of an aggregation kind.
AggregationSelector(agg_type) ==
    CASE agg_type = "sum"   -> AggregationConfig.sum_selector
      [] agg_type = "count" -> AggregationConfig.count_selector
      [] agg_type = "max"   -> AggregationConfig.max_selector
      [] OTHER              -> AggregationConfig.min_selector

\* format!("aggregate {}", agg_type), for the kinds that reach it.
AggregateRegionName(agg_type) ==
    CASE agg_type = "sum"   -> "aggregate sum"
      [] agg_type = "count" -> "aggregate count"
      [] agg_type = "max"   -> "aggregate max"
      [] OTHER              -> "aggregate min"

\* The region "aggregate <agg_type>": boundary ONE on row 0, the boundary
\* of the pair on the later rows, the values and the results; the kind's
\* selector on every row but the first.
AggregateRegion(group_keys, values, agg_type) ==
    LET cfg == AggregationConfig
        n   == Len(group_keys)
        bc  == cfg.group_by_config.boundary_column
    IN  Region(AggregateRegionName(agg_type),
               [c \in {<<col, i - 1>> :
                           col \in {bc, cfg.value_column, cfg.result_column},
                           i \in 1..n} |->
                    IF c[1] = bc
                    THEN (IF c[2] = 0 THEN 1
                          ELSE AggregationBoundary(group_keys, c[2] + 1))
                    ELSE IF c[1] = cfg.value_column
                    THEN FrFrom(values[c[2] + 1])
                    ELSE FrFrom(ResultValue(group_keys, values, agg_type,
                                            c[2] + 1))],
               NoCells,
               {<<AggregationSelector(agg_type), i - 1>> : i \in 2..n})

\* u64::saturating_sub.
SaturatingSub(a, b) == IF a > b THEN a - b ELSE 0

\* The decompositions of the MAX/MIN comparison for rows 1..n (from 1
\* here): result against value on every row, and result against the
\* previous result on a row that continues a group.
RECURSIVE ComparisonRegions(_, _, _, _)
ComparisonRegions(group_keys, values, agg_type, n) ==
    IF n = 0 THEN <<>>
    ELSE LET result == ResultValue(group_keys, values, agg_type, n)
             prev   == ResultValue(group_keys, values, agg_type, n - 1)
             diff   == IF agg_type = "max"
                       THEN SaturatingSub(result, values[n])
                       ELSE SaturatingSub(values[n], result)
             prev_diff == IF agg_type = "max"
                          THEN SaturatingSub(result, prev)
                          ELSE SaturatingSub(prev, result)
         IN  ComparisonRegions(group_keys, values, agg_type, n - 1)
               \o <<DecomposeRegion(diff)>>
               \o (IF n > 1 /\ AggregationBoundary(group_keys, n) = 0
                   THEN <<DecomposeRegion(prev_diff)>> ELSE <<>>)

\* result_cells.
ResultCells(group_keys, values, agg_type) ==
    [i \in 1..Len(group_keys) |->
        FrFrom(ResultValue(group_keys, values, agg_type, i))]

\* AggregationChip::aggregate_and_verify.
AggregateAndVerify(group_keys, values, agg_type, checks) ==
    IF Len(group_keys) # Len(values) THEN SynthesisError
    ELSE IF Len(group_keys) = 0 THEN Synthesis("ok", <<>>, {}, <<>>)
    ELSE LET grouped == GroupAndVerify(group_keys, checks) IN
         IF grouped.outcome # "ok" THEN grouped
         ELSE IF agg_type \notin AggTypes
         THEN Synthesis("error", grouped.regions, {}, <<>>)
         ELSE IF checks /\ ResultOverflows(group_keys, values, agg_type)
         THEN Panicked
         ELSE Synthesis("ok",
                  grouped.regions
                    \o <<AggregateRegion(group_keys, values, agg_type)>>
                    \o (IF agg_type \in {"max", "min"}
                        THEN ComparisonRegions(group_keys, values, agg_type,
                                               Len(group_keys))
                        ELSE <<>>),
                  {},
                  ResultCells(group_keys, values, agg_type))

---------------------------------------------------------------------------
(* SQL compiler.                                                           *)

\* table_data.get(table_name).and_then(|t| t.get(column)) is Some.
HasColumn(table_data, table_name, column) ==
    /\ table_name \in DOMAIN table_data
    /\ column \in DOMAIN table_data[table_name]

\* value + 1 on u64 in a build without overflow checks.
WrappingAddOne(value) == (value + 1) % U64Modulus

\* compile_where_clause, GreaterThan: threshold = value + 1 and
\* u = val - threshold when val >= threshold, else 0.
CompileGreaterThan(column_data, value) ==
    LET threshold == WrappingAddOne(value) IN
    [i \in 1..Len(column_data) |->
        RangeCheckOp(column_data[i], threshold,
                     IF column_data[i] >= threshold
                     THEN column_data[i] - threshold ELSE 0)]

\* compile_where_clause, Equal: one op per row with threshold = value + 1
\* and u = (value + 1) - val when val < value + 1, else 0.
CompileEqual(column_data, value) ==
    LET threshold == WrappingAddOne(value) IN
    [i \in 1..Len(column_data) |->
        RangeCheckOp(column_data[i], threshold,
                     IF column_data[i] < threshold
                     THEN threshold - column_data[i] ELSE 0)]

\* SQLCompiler::compile_where_clause: the range-check ops of a clause, in
\* the order they are pushed.  And and Or both compile the left clause and
\* then the right one.  value + 1 is evaluated once per row, so it
\* overflows only when the column has a row.
RECURSIVE CompileWhereClause(_, _, _, _)
CompileWhereClause(where_clause, table_data, table_name, checks) ==
    IF where_clause.kind \in {"And", "Or"}
    THEN LET l == CompileWhereClause(where_clause.left, table_data,
                                     table_name, checks)
             r == CompileWhereClause(where_clause.right, table_data,
                                     table_name, checks)
         IN  IF l.outcome # "ok" THEN l
             ELSE IF r.outcome # "ok" THEN r
             ELSE Emitted("ok", l.ops \o r.ops)
    ELSE IF ~HasColumn(table_data, table_name, where_clause.column)
    THEN Emitted("error", <<>>)
    ELSE LET column_data == table_data[table_name][where_clause.column]
             value       == where_clause.value
         IN  IF where_clause.kind = "LessThan"
             THEN Emitted("ok", CompileLessThan(column_data, value))
             ELSE IF checks /\ value = U64Max /\ Len(column_data) > 0
             THEN Emitted("panic", <<>>)
             ELSE IF where_clause.kind = "GreaterThan"
             THEN Emitted("ok", CompileGreaterThan(column_data, value))
             ELSE Emitted("ok", CompileEqual(column_data, value))

\* Vec::reverse.
Reverse(s) == [i \in 1..Len(s) |-> s[Len(s) + 1 - i]]

\* compile, ORDER BY: the column sorted, and reversed for Desc.
SortedColumn(column_data, direction) ==
    IF direction = "Asc" THEN SortedVec(column_data)
    ELSE Reverse(SortedVec(column_data))

\* compile, the ORDER BY loop: one SortOp per entry, or the first
\* unresolved column.
RECURSIVE CompileOrderBy(_, _, _)
CompileOrderBy(order_by, table_data, from) ==
    IF Len(order_by) = 0 THEN Emitted("ok", <<>>)
    ELSE IF ~HasColumn(table_data, from, Head(order_by).column)
    THEN Emitted("error", <<>>)
    ELSE LET column_data == table_data[from][Head(order_by).column]
             rest == CompileOrderBy(Tail(order_by), table_data, from)
         IN  IF rest.outcome # "ok" THEN rest
             ELSE Emitted("ok",
                          <<SortOp(column_data,
                                   SortedColumn(column_data,
                                                Head(order_by).direction))>>
                            \o rest.ops)

\* Mutant of Dedup: every element is kept.
DedupKeepsAll(s) == s

\* Vec::dedup: of every run of equal consecutive elements the first is
\* kept.
RECURSIVE Dedup(_)
Dedup(s) ==
    IF Len(s) <= 1 THEN s
    ELSE IF s[1] = s[2] THEN Dedup(Tail(s))
    ELSE <<s[1]>> \o Dedup(Tail(s))

\* compile, GROUP BY: the column sorted and deduplicated.
UniqueSortedKeys(column_data) == Dedup(SortedVec(column_data))

\* compile, the GROUP BY loop: one GroupByOp per column listed.
RECURSIVE CompileGroupBy(_, _, _)
CompileGroupBy(group_by_cols, table_data, from) ==
    IF Len(group_by_cols) = 0 THEN Emitted("ok", <<>>)
    ELSE IF ~HasColumn(table_data, from, Head(group_by_cols))
    THEN Emitted("error", <<>>)
    ELSE LET rest == CompileGroupBy(Tail(group_by_cols), table_data, from)
         IN  IF rest.outcome # "ok" THEN rest
             ELSE Emitted("ok",
                          <<GroupByOp(UniqueSortedKeys(
                                table_data[from][Head(group_by_cols)]))>>
                            \o rest.ops)

\* compile, the group keys of an aggregation: the first GROUP BY column as
\* the table holds it, and the empty vector when there is no GROUP BY,
\* no column in it, or the column does not resolve.
AggregationGroupKeys(group_by, table_data, from) ==
    IF Len(group_by) = 0 THEN <<>>
    ELSE IF Len(group_by[1]) = 0 THEN <<>>
    ELSE IF HasColumn(table_data, from, group_by[1][1])
    THEN table_data[from][group_by[1][1]]
    ELSE <<>>

\* compile, the agg_type of an aggregation function: Avg is lowered to
\* "sum".
AggTypeOf(function) ==
    CASE function = "Sum"   -> "sum"
      [] function = "Count" -> "count"
      [] function = "Max"   -> "max"
      [] function = "Min"   -> "min"
      [] function = "Avg"   -> "sum"

\* compile, the aggregation loop: one AggregationOp per aggregate.
RECURSIVE CompileAggregations(_, _, _, _)
CompileAggregations(aggs, group_by, table_data, from) ==
    IF Len(aggs) = 0 THEN Emitted("ok", <<>>)
    ELSE IF ~HasColumn(table_data, from, Head(aggs).column)
    THEN Emitted("error", <<>>)
    ELSE LET rest == CompileAggregations(Tail(aggs), group_by, table_data, from)
         IN  IF rest.outcome # "ok" THEN rest
             ELSE Emitted("ok",
                          <<AggregationOp(
                                AggregationGroupKeys(group_by, table_data, from),
                                table_data[from][Head(aggs).column],
                                AggTypeOf(Head(aggs).function))>>
                            \o rest.ops)

\* table.values().next().cloned().unwrap_or_default(): the column the
\* map's iteration yields first, which first names for every table.
FirstValues(table_data, table_name, first) ==
    IF DOMAIN table_data[table_name] = {} THEN <<>>
    ELSE table_data[table_name][first[table_name]]

\* compile, the JOIN loop: one JoinOp per join, keyed by the two columns of
\* the condition and carrying the first column of either table.
RECURSIVE CompileJoins(_, _, _, _)
CompileJoins(joins, table_data, from, first) ==
    IF Len(joins) = 0 THEN Emitted("ok", <<>>)
    ELSE LET join == Head(joins) IN
         IF \/ from \notin DOMAIN table_data
            \/ join.table \notin DOMAIN table_data
            \/ ~HasColumn(table_data, from, join.on.left_column)
            \/ ~HasColumn(table_data, join.table, join.on.right_column)
         THEN Emitted("error", <<>>)
         ELSE LET rest == CompileJoins(Tail(joins), table_data, from, first)
              IN  IF rest.outcome # "ok" THEN rest
                  ELSE Emitted("ok",
                               <<JoinOp(table_data[from][join.on.left_column],
                                        FirstValues(table_data, from, first),
                                        table_data[join.table][join.on.right_column],
                                        FirstValues(table_data, join.table, first))>>
                                 \o rest.ops)

\* An absent clause appends nothing.
NoOps == Emitted("ok", <<>>)

\* SQLCompiler::compile: WHERE, ORDER BY, GROUP BY, the aggregates and the
\* joins in this order, the first failure ending the call.
Compile(query, table_data, first, checks) ==
    LET range_checks ==
            IF Len(query.where_clause) = 0 THEN NoOps
            ELSE CompileWhereClause(query.where_clause[1], table_data,
                                    query.from, checks)
        sorts ==
            IF Len(query.order_by) = 0 THEN NoOps
            ELSE CompileOrderBy(query.order_by[1], table_data, query.from)
        group_bys ==
            IF Len(query.group_by) = 0 THEN NoOps
            ELSE CompileGroupBy(query.group_by[1], table_data, query.from)
        aggregations ==
            IF Len(query.aggregations) = 0 THEN NoOps
            ELSE CompileAggregations(query.aggregations[1], query.group_by,
                                     table_data, query.from)
        joins ==
            IF Len(query.joins) = 0 THEN NoOps
            ELSE CompileJoins(query.joins[1], table_data, query.from, first)
    IN  IF range_checks.outcome # "ok"
        THEN CompileResult(range_checks.outcome, <<>>)
        ELSE IF sorts.outcome # "ok" THEN CompileResult(sorts.outcome, <<>>)
        ELSE IF group_bys.outcome # "ok"
        THEN CompileResult(group_bys.outcome, <<>>)
        ELSE IF aggregations.outcome # "ok"
        THEN CompileResult(aggregations.outcome, <<>>)
        ELSE IF joins.outcome # "ok" THEN CompileResult(joins.outcome, <<>>)
        ELSE CompileResult("ok",
                           <<CompiledQuery(range_checks.ops, sorts.ops,
                                           group_bys.ops, joins.ops,
                                           aggregations.ops)>>)

---------------------------------------------------------------------------
(* The assembled circuit.                                                  *)

\* PoneglyphConfig::get_public_input_layout: a vector holding the vector
\* of the commitment and the vector of the result.
GetPublicInputLayout(db_commitment, query_result) ==
    <<<<db_commitment>>, <<query_result>>>>

\* Index of the table column among the fixed columns: it follows the
\* threshold and u columns.
LookupTableColumn == 2

\* Mutant of LookupTableRegion: the table holds 1..256.
LookupTableRegionFromOne ==
    Region("8-bit lookup table (0-255)", NoCells,
           [c \in {<<LookupTableColumn, i>> : i \in 0..(TableSize - 1)} |->
               FrFrom(c[2] + 1)],
           {})

\* PoneglyphConfig::load_lookup_table: Fr::from(i) at row i of the table
\* column, for i in 0..256.
LookupTableRegion ==
    Region("8-bit lookup table (0-255)", NoCells,
           [c \in {<<LookupTableColumn, i>> : i \in 0..(TableSize - 1)} |->
               FrFrom(c[2])],
           {})

\* The selector of PoneglyphConfig that synthesize puts in the place of a
\* selector of a chip's own config.
SynthesizeSelector(sel) ==
    CASE sel = "sort_selector"          -> "config.sort_selector"
      [] sel = "boundary_selector"      -> "decomposition_selector"
      [] sel = "join_selector"          -> "less_than_selector"
      [] sel = "deduplication_selector" -> "decomposition_selector"
      [] sel = "sum_selector"           -> "less_than_selector"
      [] sel = "count_selector"         -> "decomposition_selector"
      [] sel = "max_selector"           -> "range_check_selector"
      [] sel = "min_selector"           -> "diff_lookup_selector"
      [] OTHER                          -> sel

\* A region as the chip built from the config of synthesize assigns it.
Rewired(r) ==
    Region(r.name, r.advice, r.fixed,
           {<<SynthesizeSelector(sr[1]), sr[2]>> : sr \in r.selectors})

\* Copy constraints of a gate invocation that follows base regions.
Shifted(copies, base) ==
    {<< <<cp[1][1] + base, cp[1][2], cp[1][3]>>,
        <<cp[2][1] + base, cp[2][2], cp[2][3]>> >> : cp \in copies}

\* Mutant of SynthesizeOrder: the joins run before the group-bys.
SynthesizeOrderJoinsFirst ==
    <<"range_checks", "sorts", "joins", "group_bys", "aggregations">>

\* The loops of synthesize in the order of the text.
SynthesizeOrder ==
    <<"range_checks", "sorts", "group_bys", "joins", "aggregations">>

\* The op vector of the circuit a loop walks.
OpsOf(circuit, kind) ==
    CASE kind = "range_checks" -> circuit.range_checks
      [] kind = "sorts"        -> circuit.sorts
      [] kind = "group_bys"    -> circuit.group_bys
      [] kind = "joins"        -> circuit.joins
      [] kind = "aggregations" -> circuit.aggregations

\* The number of ops of a vector the pass has invoked: the log of a pass
\* holds <<kind, index>> for every invocation, in the order made.
Invoked(log, kind) == Cardinality({i \in 1..Len(log) : log[i][1] = kind})

\* Where the pass stands: the first loop in the order that has an op left,
\* and "done" when every loop has run out.
RECURSIVE Position(_, _, _)
Position(circuit, log, n) ==
    IF n > Len(SynthesizeOrder) THEN "done"
    ELSE IF Invoked(log, SynthesizeOrder[n]) < Len(OpsOf(circuit, SynthesizeOrder[n]))
    THEN SynthesizeOrder[n]
    ELSE Position(circuit, log, n + 1)

\* The chip call synthesize makes for op number i of a vector, after base
\* regions, with the chip configs synthesize builds.
GateInvocation(circuit, kind, i, checks, base) ==
    LET o == OpsOf(circuit, kind)[i] IN
    CASE kind = "range_checks" -> CheckLessThan(o.value, o.threshold, o.u)
      [] kind = "sorts" ->
            SortAndVerify(o.input, o.sorted_output,
                          SynthesizeSortConfig.sort_selector, checks, base)
      [] kind = "group_bys" -> GroupAndVerify(o.group_keys, checks)
      [] kind = "joins" ->
            LET j == JoinAndVerify(o.table1_keys, o.table1_values,
                                   o.table2_keys, o.table2_values, checks)
            IN  Synthesis(j.outcome, j.regions, Shifted(j.copies, base), j.ret)
      [] kind = "aggregations" ->
            AggregateAndVerify(o.group_keys, o.values, o.agg_type, checks)

\* The pass after an invocation with the given result: its regions and
\* copies are added and the invocation is logged; an invocation that fails
\* ends the pass with its outcome, and the last one ends it with ok.
AfterInvocation(circuit, pass, kind, result) ==
    LET log == Append(pass.ret, <<kind, Invoked(pass.ret, kind) + 1>>)
    IN  Synthesis(IF result.outcome # "ok" THEN result.outcome
                  ELSE IF Position(circuit, log, 1) = "done" THEN "ok"
                  ELSE "running",
                  pass.regions \o [k \in 1..Len(result.regions) |->
                                      Rewired(result.regions[k])],
                  pass.copies \cup result.copies,
                  log)

---------------------------------------------------------------------------
(* Database commitment.                                                    *)

\* DatabaseCommitment::hash_data: the sum over the pairs of
\* key * 1000000 + value, in Fr.
RECURSIVE HashData(_)
HashData(data) ==
    IF Len(data) = 0 THEN 0
    ELSE LET front == HashData(SubSeq(data, 1, Len(data) - 1))
             pair  == data[Len(data)]
         IN  FrAdd(FrAdd(front, FrMul(FrFrom(pair[1]), FrFrom(1000000))),
                   FrFrom(pair[2]))

\* Mutant of NewDatabaseCommitment: the commitment is the hash plus one.
NewDatabaseCommitmentOffset(data) ==
    DatabaseCommitment(FrAdd(HashData(data), 1), HashData(data))

\* DatabaseCommitment::new: the commitment is the data hash.
NewDatabaseCommitment(data) == DatabaseCommitment(HashData(data), HashData(data))

\* DatabaseCommitment::verify.
VerifyCommitment(self, data) == HashData(data) = self.data_hash

\* DatabaseCommitment::commitment.
CommitmentValue(self) == self.commitment

---------------------------------------------------------------------------
(* Proving.                                                                *)

\* The witness pass create_proof makes over a circuit: synthesize run from
\* its first statement to its return, its first error or its panic.
RECURSIVE SynthesizePass(_, _, _)
SynthesizePass(circuit, pass, checks) ==
    IF pass.outcome # "running" THEN pass
    ELSE LET kind == Position(circuit, pass.ret, 1) IN
         SynthesizePass(circuit,
                        AfterInvocation(circuit, pass, kind,
                                        GateInvocation(circuit, kind,
                                                       Invoked(pass.ret, kind) + 1,
                                                       checks, Len(pass.regions))),
                        checks)

Synthesize(circuit, checks) ==
    SynthesizePass(circuit,
                   Synthesis(IF Position(circuit, <<>>, 1) = "done"
                             THEN "ok" ELSE "running",
                             <<LookupTableRegion>>, {}, <<>>),
                   checks)

\* transcript.finalize(): the bytes of a proof, two symbols here.
Transcript(circuit, public_inputs, rng) ==
    <<ProofPart(circuit, public_inputs, rng, 0),
      ProofPart(circuit, public_inputs, rng, 1)>>

\* Prover::prove.  Every vector of public_inputs becomes the instances of
\* one circuit, and create_proof is given one circuit: it returns an error
\* unless there is exactly one vector, then runs the witness pass, whose
\* error it returns and whose panic unwinds through it.  rng is what OsRng
\* yields.
Prove(circuit, public_inputs, rng, checks) ==
    IF Len(public_inputs) # 1 THEN Proved("error", <<>>)
    ELSE LET pass == Synthesize(circuit, checks) IN
         IF pass.outcome # "ok" THEN Proved(pass.outcome, <<>>)
         ELSE Proved("ok", Transcript(circuit, public_inputs, rng))

\* prove_batch, the inputs of circuit i (from 1): public_inputs[i], and an
\* empty vector when public_inputs is shorter.
BatchInputs(public_inputs, i) ==
    IF i - 1 < Len(public_inputs) THEN public_inputs[i] ELSE <<>>

\* Mutant of Concat: the vectors are joined last to first.
RECURSIVE ConcatReversed(_)
ConcatReversed(vectors) ==
    IF Len(vectors) = 0 THEN <<>>
    ELSE ConcatReversed(Tail(vectors)) \o Head(vectors)

\* all_proofs.concat(): the vectors joined first to last.
RECURSIVE Concat(_)
Concat(vectors) ==
    IF Len(vectors) = 0 THEN <<>>
    ELSE Head(vectors) \o Concat(Tail(vectors))

---------------------------------------------------------------------------
(* The constraint system on an assignment.                                 *)

\* The gates and lookups a selector switches on.
GateHolds(r, sel, row) ==
    CASE sel = "sort_selector"          -> SortOrderGate(r, row)
      [] sel = "config.sort_selector"   -> TRUE
      [] sel = "decomposition_selector" -> DecompositionSumGate(r, row)
      [] sel = "range_check_selector"   -> ChunkLookup(r, row)
      [] sel = "less_than_selector"     -> LessThanGate(r, row)
      [] sel = "diff_lookup_selector"   -> DiffLookup(r, row)
      [] sel = "boundary_selector"      -> BoundaryCheckGate(r, row)
      [] sel = "join_selector"          -> KeyComparisonGate(r, row)
                                             /\ MatchBooleanGate(r, row)
      [] sel = "deduplication_selector" -> DeduplicationGate(r, row)
      [] sel = "sum_selector"           -> SumGate(r, row)
      [] sel = "count_selector"         -> CountGate(r, row)
      [] sel = "max_selector"           -> MaxMinGate(r, row)
      [] sel = "min_selector"           -> MaxMinGate(r, row)
      [] OTHER                          -> TRUE

RegionVerifies(r) == \A sr \in r.selectors : GateHolds(r, sr[1], sr[2])

\* A copy constraint holds when both cells are assigned the same value.
CopyHolds(regions, cp) ==
    LET a == cp[1]
        b == cp[2]
    IN  /\ Assigned(regions[a[1]], a[2], a[3])
        /\ Assigned(regions[b[1]], b[2], b[3])
        /\ Adv(regions[a[1]], a[2], a[3]) = Adv(regions[b[1]], b[2], b[3])

SynthesisVerifies(s) ==
    /\ s.outcome = "ok"
    /\ \A k \in 1..Len(s.regions) : RegionVerifies(s.regions[k])
    /\ \A cp \in s.copies : CopyHolds(s.regions, cp)

---------------------------------------------------------------------------
(* State.                                                                  *)

VARIABLES
    pc,                \* "idle" between invocations, "done" after one
    op,                \* the chip entry point last invoked
    args,              \* its arguments
    syn,               \* what it left behind: outcome, regions, copies, ret
    overflow_checks    \* whether the build panics on arithmetic overflow

vars == <<pc, op, args, syn, overflow_checks>>

NoSynthesis == Synthesis("none", <<>>, {}, <<>>)

Init ==
    /\ pc = "idle"
    /\ op = "none"
    /\ args = <<>>
    /\ syn = NoSynthesis
    /\ overflow_checks \in BOOLEAN

Invoke(name, a, s) ==
    /\ pc' = "done"
    /\ op' = name
    /\ args' = a
    /\ syn' = s
    /\ UNCHANGED overflow_checks

\* The layouter is dropped and the next invocation starts on fresh regions.
Return ==
    /\ pc = "done"
    /\ pc' = "idle"
    /\ op' = "none"
    /\ args' = <<>>
    /\ syn' = NoSynthesis
    /\ UNCHANGED overflow_checks

Verifies == SynthesisVerifies(syn)

Done(name) == pc = "done" /\ op = name

---------------------------------------------------------------------------
(* Sort invocations.                                                       *)

SortVals == {0, 1, 300}

SortSeqs == SeqsUpTo(SortVals, MaxSortLen)

\* The selectors a Sort chip is constructed with.
SortSelectors == {SortConfig.sort_selector, SynthesizeSortConfig.sort_selector}

SortAndVerifyCall ==
    /\ pc = "idle"
    /\ \E sort_selector \in SortSelectors,
          input \in SortSeqs, sorted_values \in SortSeqs :
           Invoke("sort_and_verify",
                  SortArgs(sort_selector, input, sorted_values),
                  SortAndVerify(input, sorted_values, sort_selector,
                                overflow_checks, 0))

NextSort == SortAndVerifyCall \/ Return

SpecSort == Init /\ [][NextSort]_vars

\* Number of occurrences of v in sequence s.
Count(s, v) == Cardinality({i \in 1..Len(s) : s[i] = v})

Elems(s) == {s[i] : i \in 1..Len(s)}

IsPermutation(a, b) ==
    /\ Len(a) = Len(b)
    /\ \A v \in Elems(a) \cup Elems(b) : Count(a, v) = Count(b, v)

NonDecreasing(s) == \A i \in 1..(Len(s) - 1) : s[i] <= s[i + 1]

\* C1: whenever sort_and_verify completes with all its constraints
\* satisfied, sorted_values is a permutation of input (same length, same
\* multiset of values).
C1_SortedIsPermutation ==
    (Done("sort_and_verify") /\ Verifies)
        => IsPermutation(args.input, args.sorted_values)

\* C2: sort_and_verify leaves a satisfied constraint system only when
\* sorted_values is non-decreasing; then no diff underflowed and every diff
\* cell equals the field difference of the output cells i+1 and i.
C2_AcceptedOnlyIfNonDecreasing ==
    (Done("sort_and_verify") /\ Verifies)
        => /\ NonDecreasing(args.sorted_values)
           /\ ~SortDiffOverflows(args.sorted_values)
           /\ \A i \in 1..(Len(args.sorted_values) - 1) :
                  Adv(syn.regions[3], SortConfig.diff_column, i - 1)
                      = FrSub(syn.ret[i + 1], syn.ret[i])

\* With the selector of the gate "sort order check" enabled, a satisfied
\* constraint system has a non-decreasing sorted_values.
SortOrderGateRejectsDecreasing ==
    (/\ Done("sort_and_verify")
     /\ args.sort_selector = SortConfig.sort_selector
     /\ Verifies)
        => NonDecreasing(args.sorted_values)

\* C28: sort_and_verify on an empty input with empty sorted_values returns
\* without an error or a panic, with no output cells and no constraint
\* added.
C28_EmptySortCompletes ==
    (/\ Done("sort_and_verify")
     /\ args.input = <<>>
     /\ args.sorted_values = <<>>)
        => /\ syn.outcome = "ok"
           /\ syn.ret = <<>>
           /\ syn.copies = {}
           /\ \A k \in 1..Len(syn.regions) : syn.regions[k].selectors = {}

---------------------------------------------------------------------------
(* Group-By invocations.                                                   *)

GroupKeyVals == {0, 1, I64Max, U64Max}

GroupKeySeqs == SeqsUpTo(GroupKeyVals, MaxKeysLen)

GroupAndVerifyCall ==
    /\ pc = "idle"
    /\ \E group_keys \in GroupKeySeqs :
           Invoke("group_and_verify", GroupByArgs(group_keys),
                  GroupAndVerify(group_keys, overflow_checks))

\* Candidate values of b and p for a pair of keys: the booleans, a
\* non-boolean, and the inverse of the difference and its negation.
BoundaryCandidates == {0, 1, 2}

InverseCandidates(v1, v2) ==
    {0, 1, FrInvertOrZero(FrSub(FrFrom(v2), FrFrom(v1))),
     FrInvertOrZero(FrSub(FrFrom(v1), FrFrom(v2)))}

\* The prover assigns one boundary row freely.
BoundaryRowAssignment ==
    /\ pc = "idle"
    /\ \E v1 \in GroupKeyVals, v2 \in GroupKeyVals, b \in BoundaryCandidates :
           \E p \in InverseCandidates(v1, v2) :
               Invoke("boundary_row", BoundaryRowArgs(v1, v2, b, p),
                      Synthesis("ok", <<BoundaryRowRegion(v1, v2, b, p)>>, {}, <<b>>))

NextGroupBy == GroupAndVerifyCall \/ BoundaryRowAssignment \/ Return

SpecGroupBy == Init /\ [][NextGroupBy]_vars

\* C3: for every sorted key sequence v with at least two keys,
\* group_and_verify returns |v| - 1 boundary flags with boundary[i] = 1 if
\* and only if v[i] # v[i+1], and 0 when v[i] = v[i+1].
C3_BoundaryMarksKeyChange ==
    (/\ Done("group_and_verify")
     /\ syn.outcome = "ok"
     /\ Len(args.group_keys) >= 2
     /\ NonDecreasing(args.group_keys))
        => /\ Len(syn.ret) = Len(args.group_keys) - 1
           /\ \A i \in 1..(Len(args.group_keys) - 1) :
                  /\ syn.ret[i] \in {0, 1}
                  /\ (syn.ret[i] = 1) <=> (args.group_keys[i] # args.group_keys[i + 1])

\* C4: on a row where the boundary selector is on, values (v1, v2, b, p)
\* that satisfy the three boundary-check constraints determine b from the
\* keys: p is the inverse of the difference whenever the keys differ, and
\* b = 1 exactly when the keys are equal.
C4_BoundaryDeterminedByKeys ==
    (Done("boundary_row") /\ Verifies)
        => /\ (args.b = 1) <=> (args.v1 = args.v2)
           /\ (args.v1 # args.v2)
                  => FrMul(args.p, FrSub(FrFrom(args.v2), FrFrom(args.v1))) = 1

\* C4, second part: dropping any one of the three constraints admits an
\* assignment of the row just made that the full set rejects.  Constraint
\* j is dropped; the other two are kept.
BoundaryAllBut(j, v1, v2, b, p) ==
    /\ (j # 1) => BoundaryBoolean(b)
    /\ (j # 2) => BoundaryDefinition(v1, v2, b, p)
    /\ (j # 3) => BoundaryInverse(v1, v2, b, p)

C4_EachConstraintLoadBearing ==
    \A j \in 1..3 :
        \E v1 \in GroupKeyVals, v2 \in GroupKeyVals, b \in BoundaryCandidates :
            \E p \in InverseCandidates(v1, v2) :
                /\ BoundaryAllBut(j, FrFrom(v1), FrFrom(v2), b, p)
                /\ ~BoundaryAllBut(0, FrFrom(v1), FrFrom(v2), b, p)

\* C29: group_and_verify on no key returns no boundary cell and assigns
\* nothing; on one key it returns exactly one boundary cell of value 0,
\* assigns an inverse of 0 and enables no selector.
C29_EmptyAndSingletonGroups ==
    Done("group_and_verify")
        => /\ Len(args.group_keys) = 0
                  => /\ syn.outcome = "ok"
                     /\ syn.ret = <<>>
                     /\ syn.copies = {}
                     /\ \A k \in 1..Len(syn.regions) :
                            /\ DOMAIN syn.regions[k].advice = {}
                            /\ DOMAIN syn.regions[k].fixed = {}
                            /\ syn.regions[k].selectors = {}
           /\ Len(args.group_keys) = 1
                  => /\ syn.outcome = "ok"
                     /\ syn.ret = <<0>>
                     /\ Len(syn.regions) = 1
                     /\ Assigned(syn.regions[1], GroupByConfig.boundary_column, 0)
                     /\ Adv(syn.regions[1], GroupByConfig.boundary_column, 0) = 0
                     /\ Assigned(syn.regions[1], GroupByConfig.inverse_column, 0)
                     /\ Adv(syn.regions[1], GroupByConfig.inverse_column, 0) = 0
                     /\ Adv(syn.regions[1], GroupByConfig.group_key_column, 0)
                            = FrFrom(args.group_keys[1])
                     /\ syn.regions[1].selectors = {}

\* C29 witness: a call on the single key u64::MAX has returned its one
\* boundary cell.
C29_Witness ==
    /\ Done("group_and_verify")
    /\ args.group_keys = <<U64Max>>
    /\ Len(syn.ret) = 1
    /\ syn.regions[1].selectors = {}

---------------------------------------------------------------------------
(* Range Check invocations.                                                *)

\* Values, thresholds and residues around the comparison boundary, the
\* table bound and the word bound.
RangeVals == {0, 1, 49, 50, 51, 255, 256, 300, U64Max}

RangeUs == {0, 1, 20, 255, 256, U64Max}

CheckLessThanCall ==
    /\ pc = "idle"
    /\ \E x \in RangeVals, threshold \in RangeVals, u \in RangeUs :
           Invoke("check_less_than", LessThanArgs(x, threshold, u),
                  CheckLessThan(x, threshold, u))

\* Candidate values of the check cell, and of the diff cell for a check:
\* the value the diff constraint forces, and its neighbours.
CheckCandidates == {0, 1, 2}

DiffCandidates(x, threshold, u, check) ==
    LET forced == FrSub(FrAdd(check, FrSub(FrFrom(x), FrFrom(threshold))), FrFrom(u))
    IN  {forced, FrAdd(forced, 1), 0}

\* The prover assigns the check and diff cells of one x < t region freely.
LessThanAssignment ==
    /\ pc = "idle"
    /\ \E x \in RangeVals, threshold \in RangeVals, u \in RangeUs,
          check \in CheckCandidates :
           \E diff \in DiffCandidates(x, threshold, u, check) :
               Invoke("less_than_row",
                      LessThanRowArgs(x, threshold, u, check, diff),
                      Synthesis("ok",
                                <<LessThanWitnessRegion(x, threshold, u, check, diff)>>,
                                {}, <<check>>))

DecomposeVals ==
    {0, 1, 255, 256, 257, 300, 65535, 65536, 74565, I64Max, U64Max - 1, U64Max}

Decompose64bitCall ==
    /\ pc = "idle"
    /\ \E value \in DecomposeVals :
           Invoke("decompose_64bit", DecomposeArgs(value), Decompose64bit(value))

\* Column values and literals of WHERE col < k: the ages and the literal
\* of the selection scenario, and the values next to the literal.
WhereVals == {30, 40, 49, 50, 55}

WhereLiterals == {50, 255}

WhereColumns == SeqsUpTo(WhereVals, MaxColumnLen)

\* compile lowers WHERE col < k and synthesize runs the emitted ops.
WhereLessThanCall ==
    /\ pc = "idle"
    /\ \E column_data \in WhereColumns, k \in WhereLiterals :
           Invoke("where_less_than", WhereArgs(column_data, k),
                  SynthesizeRangeChecks(CompileLessThan(column_data, k)))

NextRangeCheck ==
    \/ CheckLessThanCall
    \/ LessThanAssignment
    \/ Decompose64bitCall
    \/ WhereLessThanCall
    \/ Return

SpecRangeCheck == Init /\ [][NextRangeCheck]_vars

\* C5: for every value x and threshold t, check_less_than assigns the
\* check cell 1 if x < t and 0 otherwise, whatever u is supplied.
C5_CheckIsLessThan ==
    Done("check_less_than")
        => /\ syn.outcome = "ok"
           /\ Assigned(syn.regions[1], RangeCheckConfig.check_column, 0)
           /\ Adv(syn.regions[1], RangeCheckConfig.check_column, 0)
                  = (IF args.x < args.threshold THEN 1 ELSE 0)
           /\ syn.ret = <<Adv(syn.regions[1], RangeCheckConfig.check_column, 0)>>

\* C5 witness: check = 1 for x < t under a u that is not t - x.
C5_Witness ==
    /\ Done("check_less_than")
    /\ args.x < args.threshold
    /\ args.u # args.threshold - args.x
    /\ syn.ret = <<1>>

\* The value of a field element read as a signed integer around zero.
Centered(a) == IF a > FrModulus \div 2 THEN a - FrModulus ELSE a

\* C6: for every range-check op compile emits for WHERE col < k with
\* k < 256, the diff witness lies in [0, 256), so the diff lookup passes and
\* the circuit verifies.
C6_CompiledLessThanVerifies ==
    (Done("where_less_than") /\ args.k < TableSize)
        => /\ \A i \in 1..Len(syn.regions) :
                  Centered(Adv(syn.regions[i], RangeCheckConfig.diff_column, 1))
                      \in 0..(TableSize - 1)
           /\ Verifies

\* C7: with u < 256 and the less-than and diff-lookup selectors enabled,
\* every assignment of (check, diff) that satisfies the constraints has
\* check = 1 if and only if x < t, and the assignment with the opposite
\* check and the diff it forces is not satisfying.
C7_LessThanSound ==
    (Done("less_than_row") /\ args.u < TableSize /\ Verifies)
        => /\ (args.check = 1) <=> (args.x < args.threshold)
           /\ \A diff \in DiffCandidates(args.x, args.threshold, args.u,
                                         FrSub(1, args.check)) :
                  ~RegionVerifies(LessThanWitnessRegion(args.x, args.threshold,
                                      args.u, FrSub(1, args.check), diff))

\* Sum of chunks[i] * 2^(8 (i - 1)) over i = 1..n, in the integers.
RECURSIVE WeightedSum(_, _)
WeightedSum(chunks, n) ==
    IF n = 0 THEN 0
    ELSE WeightedSum(chunks, n - 1) + chunks[n] * (2 ^ ((n - 1) * ChunkBits))

\* C8: decompose_64bit assigns the chunks c_i = (x >> 8i) & 0xFF on one
\* row together with x, each chunk lies in [0, 256), the sum of
\* c_i * 2^(8i) equals x, and the decomposition-sum gate and the chunk
\* lookups enabled on that row are satisfied.
C8_DecompositionSumsToValue ==
    Done("decompose_64bit")
        => /\ Len(syn.ret) = NumChunks
           /\ \A i \in 1..NumChunks :
                  /\ syn.ret[i] \in 0..(TableSize - 1)
                  /\ Adv(syn.regions[1], RangeCheckConfig.chunk_columns[i], 1)
                         = syn.ret[i]
           /\ Adv(syn.regions[1], RangeCheckConfig.x_column, 1) = args.value
           /\ WeightedSum(syn.ret, NumChunks) = args.value
           /\ syn.regions[1].selectors
                  = {<<"decomposition_selector", 1>>, <<"range_check_selector", 1>>}
           /\ Verifies

\* C8 witness: a decomposed value with more than one non-zero chunk.
C8_Witness ==
    /\ Done("decompose_64bit")
    /\ Verifies
    /\ Cardinality({i \in 1..NumChunks : syn.ret[i] # 0}) >= 2

---------------------------------------------------------------------------
(* Join invocations.                                                       *)

JoinKeyVals == {0, 1, 2}

JoinValueVals == {7}

JoinKeySeqs == SeqsUpTo(JoinKeyVals, MaxJoinLen)

JoinValueSeqs == SeqsUpTo(JoinValueVals, MaxJoinLen)

JoinAndVerifyCall ==
    /\ pc = "idle"
    /\ \E table1_keys \in JoinKeySeqs, table2_keys \in JoinKeySeqs,
          table1_values \in JoinValueSeqs, table2_values \in JoinValueSeqs :
           Invoke("join_and_verify",
                  JoinArgs(table1_keys, table1_values, table2_keys, table2_values),
                  JoinAndVerify(table1_keys, table1_values, table2_keys,
                                table2_values, overflow_checks))

NextJoin == JoinAndVerifyCall \/ Return

SpecJoin == Init /\ [][NextJoin]_vars

\* The join region of the invocation just made.
AssignJoin ==
    syn.regions[CHOOSE k \in 1..Len(syn.regions) :
                    syn.regions[k].name = "assign join"]

\* The rows on which a region assigns a cell.
RowsOf(r) == {c[2] : c \in DOMAIN r.advice}

\* C9: for tables t1 and t2 (each with as many values as keys) the join
\* region has exactly max(|t1|, |t2|) rows; on every row i < min(|t1|, |t2|)
\* the join selector is enabled and match[i] = 1 iff t1.keys[i] = t2.keys[i];
\* on every row i >= min(|t1|, |t2|) the missing side's key and value are 0,
\* match[i] = 0 and the join selector is not enabled.
C9_JoinRegionLayout ==
    (/\ Done("join_and_verify")
     /\ Len(args.table1_values) = Len(args.table1_keys)
     /\ Len(args.table2_values) = Len(args.table2_keys))
        => LET cfg == JoinConfig
               r   == AssignJoin
               n1  == Len(args.table1_keys)
               n2  == Len(args.table2_keys)
           IN  /\ syn.outcome = "ok"
               /\ RowsOf(r) = 0..(Max(n1, n2) - 1)
               /\ \A i \in 0..(Min(n1, n2) - 1) :
                      /\ <<cfg.join_selector, i>> \in r.selectors
                      /\ Adv(r, cfg.match_column, i) \in {0, 1}
                      /\ (Adv(r, cfg.match_column, i) = 1)
                             <=> (args.table1_keys[i + 1] = args.table2_keys[i + 1])
               /\ \A i \in Min(n1, n2)..(Max(n1, n2) - 1) :
                      /\ <<cfg.join_selector, i>> \notin r.selectors
                      /\ Adv(r, cfg.match_column, i) = 0
                      /\ (i >= n1) => /\ Adv(r, cfg.table1_key_column, i) = 0
                                      /\ Adv(r, cfg.table1_value_column, i) = 0
                      /\ (i >= n2) => /\ Adv(r, cfg.table2_key_column, i) = 0
                                      /\ Adv(r, cfg.table2_value_column, i) = 0

\* C9 witness: tables of different lengths, with a matching row and a
\* padded row whose present key is 0.
C9_Witness ==
    /\ Done("join_and_verify")
    /\ Len(args.table1_values) = Len(args.table1_keys)
    /\ Len(args.table2_values) = Len(args.table2_keys)
    /\ Len(args.table1_keys) = 2
    /\ Len(args.table2_keys) = 1
    /\ args.table1_keys[1] = args.table2_keys[1]
    /\ args.table1_keys[2] = 0
    /\ Adv(AssignJoin, JoinConfig.match_column, 0) = 1
    /\ Adv(AssignJoin, JoinConfig.match_column, 1) = 0

\* C10: in join_and_verify the keys compared row by row are the sorted
\* outputs of the two Sort gate instances: for every i < min(|t1|, |t2|),
\* match[i] = 1 iff sorted(t1.keys)[i] = sorted(t2.keys)[i].
C10_MatchOnSortedKeys ==
    (Done("join_and_verify") /\ syn.outcome = "ok")
        => \A i \in 1..Min(Len(args.table1_keys), Len(args.table2_keys)) :
               (syn.ret[i] = 1)
                   <=> (SortedVec(args.table1_keys)[i] = SortedVec(args.table2_keys)[i])

\* C11: whenever join_and_verify succeeds (and its constraints hold), no
\* key collected into T_miss1 occurs anywhere in t2.keys and no key
\* collected into T_miss2 occurs anywhere in t1.keys.
C11_ResiduesDisjoint ==
    (Done("join_and_verify") /\ syn.outcome = "ok" /\ Verifies)
        => LET min_len == Min(Len(args.table1_keys), Len(args.table2_keys))
               t_miss1 == MissKeys(args.table1_keys, args.table2_keys, min_len)
               t_miss2 == MissKeys(args.table2_keys, args.table1_keys, min_len)
           IN  /\ Elems(t_miss1) \cap Elems(args.table2_keys) = {}
               /\ Elems(t_miss2) \cap Elems(args.table1_keys) = {}

---------------------------------------------------------------------------
(* Aggregation invocations.                                                *)

AggKeyVals == {0, 1, 2}

\* Values whose sums stay in the word, and one whose sums leave it.
AggValueVals == {1, 5, U64Max}

\* The four kinds and a string that is none of them.
AggTypeVals == AggTypes \cup {"avg"}

AggKeySeqs == SeqsUpTo(AggKeyVals, MaxAggLen)

AggValueSeqs == SeqsUpTo(AggValueVals, MaxAggLen)

AggregateAndVerifyCall ==
    /\ pc = "idle"
    /\ \E group_keys \in AggKeySeqs, values \in AggValueSeqs,
          agg_type \in AggTypeVals :
           Invoke("aggregate_and_verify",
                  AggregationOp(group_keys, values, agg_type),
                  AggregateAndVerify(group_keys, values, agg_type,
                                     overflow_checks))

NextAggregation == AggregateAndVerifyCall \/ Return

SpecAggregation == Init /\ [][NextAggregation]_vars

\* The rows (from 1) of the run of equal keys that row i belongs to.
RunOf(group_keys, i) ==
    {j \in 1..Len(group_keys) : group_keys[j] = group_keys[i]}

\* Whether row i is the last row of its run.
LastOfRun(group_keys, i) ==
    i = Len(group_keys) \/ group_keys[i + 1] # group_keys[i]

\* Sum of values over a set of rows, in the integers.
RECURSIVE SumOver(_, _)
SumOver(values, rows) ==
    IF rows = {} THEN 0
    ELSE LET j == CHOOSE r \in rows : TRUE
         IN  values[j] + SumOver(values, rows \ {j})

\* The scalar aggregate of the rows of a group under a kind.
GroupAggregate(values, rows, agg_type) ==
    CASE agg_type = "sum"   -> SumOver(values, rows)
      [] agg_type = "count" -> Cardinality(rows)
      [] agg_type = "max"   ->
             CHOOSE m \in {values[j] : j \in rows} :
                 \A j \in rows : values[j] <= m
      [] OTHER              ->
             CHOOSE m \in {values[j] : j \in rows} :
                 \A j \in rows : m <= values[j]

\* An invocation the aggregation contract covers: non-empty sorted keys,
\* as many values, one of the four kinds, and no group whose sum leaves
\* u64 when sums are asked for.
AggregationContract ==
    /\ Done("aggregate_and_verify")
    /\ Len(args.group_keys) >= 1
    /\ NonDecreasing(args.group_keys)
    /\ Len(args.values) = Len(args.group_keys)
    /\ args.agg_type \in AggTypes
    /\ (args.agg_type = "sum")
           => \A i \in 1..Len(args.group_keys) :
                  SumOver(args.values, RunOf(args.group_keys, i)) <= U64Max

C13_AggregationUsesGroupByBoundary ==
    (Done("aggregate_and_verify") /\ syn.outcome = "ok")
        => \A i \in 1..(Len(args.group_keys) - 1) :
               Adv(syn.regions[2],
                   AggregationConfig.group_by_config.boundary_column, i)
                   = Adv(syn.regions[1], GroupByConfig.boundary_column, i - 1)

\* C14: aggregate_and_verify returns a synthesis error whenever
\* |group_keys| # |values| or agg_type is not one of "sum", "count", "max",
\* "min", for every input including empty sequences, and then assigns no
\* aggregation result cells.
C14_RejectsMismatchAndUnknownKind ==
    (/\ Done("aggregate_and_verify")
     /\ \/ Len(args.group_keys) # Len(args.values)
        \/ args.agg_type \notin AggTypes)
        => /\ syn.outcome = "error"
           /\ syn.ret = <<>>
           /\ \A k \in 1..Len(syn.regions) :
                  \A row \in 0..MaxAggLen :
                      ~Assigned(syn.regions[k],
                                AggregationConfig.result_column, row)

---------------------------------------------------------------------------
(* Compiler invocations.                                                   *)

\* Ages of the users table: below, at and above the literal 50, and the
\* largest word.
CompileAges == {30, 50, U64Max}

CompileIds == {1, 2}

\* Literals of the WHERE comparisons.
CompileLiterals == {50, U64Max}

\* The rows <<age, id>> of the users table.
UsersRows == SeqsUpTo(CompileAges \X CompileIds, MaxColumnLen)

\* The catalog: users(age, id) with the given rows and orders(id).
TableData(rows) ==
    [t \in {"users", "orders"} |->
        IF t = "users"
        THEN [c \in {"age", "id"} |->
                 [i \in 1..Len(rows) |->
                     IF c = "age" THEN rows[i][1] ELSE rows[i][2]]]
        ELSE [c \in {"id"} |-> [i \in 1..2 |-> IF i = 1 THEN 2 ELSE 1]]]

\* The orders in which the maps of the catalog may iterate: the column
\* each table yields first.
FirstColumns(table_data) ==
    {first \in [DOMAIN table_data -> {"age", "id"}] :
        \A t \in DOMAIN table_data : first[t] \in DOMAIN table_data[t]}

Comparisons ==
    {Comparison(kind, column, value) :
        kind \in {"LessThan", "GreaterThan", "Equal"},
        column \in {"age", "zz"}, value \in CompileLiterals}

Connectives ==
    {Connective(kind, l, r) :
        kind \in {"And", "Or"},
        l \in {c \in Comparisons : c.column = "age" /\ c.kind # "GreaterThan"},
        r \in {c \in Comparisons : c.value = 50 /\ c.kind # "GreaterThan"}}

OrderBys ==
    {OrderBy(column, direction) :
        column \in {"age", "zz"}, direction \in {"Asc", "Desc"}}

OrderByLists ==
    {<<o>> : o \in OrderBys} \cup {<<o, p>> : o \in OrderBys, p \in OrderBys}

GroupByLists == {<<>>, <<"age">>, <<"id">>, <<"zz">>, <<"id", "age">>}

AggregationLists ==
    {<<>>}
      \cup {<<AggregationClause(function, column)>> :
               function \in {"Sum", "Count", "Max", "Min", "Avg"},
               column \in {"age", "zz"}}

JoinLists ==
    {<<JoinClause(table, JoinCondition(left_column, right_column))>> :
        table \in {"orders", "payments"},
        left_column \in {"id", "zz"}, right_column \in {"id", "zz"}}

\* The queries on users: a WHERE clause, an ORDER BY list, a GROUP BY list
\* with or without aggregates, or a join; and the same shapes on a table
\* the catalog does not hold.
Queries ==
    {SQLQuery("users", <<w>>, <<>>, <<>>, <<>>, <<>>) :
        w \in Comparisons \cup Connectives}
      \cup {SQLQuery("users", <<>>, <<>>, <<o>>, <<>>, <<>>) : o \in OrderByLists}
      \cup {SQLQuery("users", <<>>, <<g>>, <<>>, <<>>, <<a>>) :
               g \in GroupByLists, a \in AggregationLists}
      \cup {SQLQuery("users", <<>>, <<>>, <<>>, <<>>, <<a>>) :
               a \in AggregationLists}
      \cup {SQLQuery("users", <<>>, <<>>, <<>>, <<j>>, <<>>) : j \in JoinLists}
      \cup {SQLQuery("ghosts", <<>>, <<>>, <<>>, <<>>, <<>>),
            SQLQuery("ghosts", <<Comparison("LessThan", "age", 50)>>,
                     <<>>, <<>>, <<>>, <<>>),
            SQLQuery("ghosts", <<>>, <<>>, <<<<OrderBy("age", "Asc")>>>>,
                     <<>>, <<>>),
            SQLQuery("ghosts", <<>>, <<<<"age">>>>, <<>>, <<>>, <<>>),
            SQLQuery("ghosts", <<>>, <<<<>>>>, <<>>, <<>>, <<>>),
            SQLQuery("ghosts", <<>>, <<>>, <<>>, <<>>,
                     <<<<AggregationClause("Sum", "age")>>>>),
            SQLQuery("ghosts", <<>>, <<>>, <<>>,
                     <<<<JoinClause("orders", JoinCondition("id", "id"))>>>>,
                     <<>>)}

\* SQLCompiler::compile on one query and one catalog.
CompileCall ==
    /\ pc = "idle"
    /\ \E query \in Queries, rows \in UsersRows :
           \E first \in FirstColumns(TableData(rows)) :
               Invoke("compile", CompileArgs(query, TableData(rows)),
                      Compile(query, TableData(rows), first, overflow_checks))

NextCompile ==
    \/ CompileCall
    \/ Return

SpecCompile == Init /\ [][NextCompile]_vars

\* The compiled query of a call that returned Ok.
Compiled == syn.compiled[1]

\* The call compiled a query whose WHERE clause is one comparison of the
\* given kind.
WhereIs(kind) ==
    /\ Done("compile")
    /\ Len(args.query.where_clause) = 1
    /\ args.query.where_clause[1].kind = kind

\* The column of the FROM table a name resolves to.
ColumnOf(column) == args.table_data[args.query.from][column]

\* C15: for WHERE col < k, compile appends exactly one RangeCheckOp per
\* row of the column, in row order, with value = val, threshold = k and
\* u = k - val when val < k, else 0.
C15_LessThanEmitsOneOpPerRow ==
    (WhereIs("LessThan") /\ syn.outcome = "ok")
        => LET k           == args.query.where_clause[1].value
               column_data == ColumnOf(args.query.where_clause[1].column)
               ops         == Compiled.range_checks
           IN  /\ Len(ops) = Len(column_data)
               /\ \A i \in 1..Len(column_data) :
                      /\ ops[i].value = column_data[i]
                      /\ ops[i].threshold = k
                      /\ ops[i].u = (IF column_data[i] < k
                                     THEN k - column_data[i] ELSE 0)

\* C15 witness: a column with a row below the literal and a row at it.
C15_Witness ==
    /\ WhereIs("LessThan")
    /\ syn.outcome = "ok"
    /\ Compiled.range_checks
           = <<RangeCheckOp(30, 50, 20), RangeCheckOp(50, 50, 0)>>

\* C16: for WHERE col = k, compile succeeds with ops whose threshold is
\* k + 1 without wrap-around, and the op of a row has check = 1 if and only
\* if the row's value is k.
C16_EqualAcceptsExactlyEqualRows ==
    (WhereIs("Equal")
       /\ HasColumn(args.table_data, args.query.from,
                    args.query.where_clause[1].column))
        => LET k           == args.query.where_clause[1].value
               column_data == ColumnOf(args.query.where_clause[1].column)
           IN  /\ syn.outcome = "ok"
               /\ Len(Compiled.range_checks) = Len(column_data)
               /\ \A i \in 1..Len(column_data) :
                      LET row == Compiled.range_checks[i] IN
                      /\ row.value = column_data[i]
                      /\ row.threshold = k + 1
                      /\ (CheckValue(row.value, row.threshold) = 1)
                             <=> (column_data[i] = k)

\* C17: every SortOp compile emits for ORDER BY, ascending or descending,
\* has a sorted_output that is a permutation of its input and is
\* non-decreasing.
C17_SortOpsAreSorted ==
    (Done("compile") /\ syn.outcome = "ok")
        => \A j \in 1..Len(Compiled.sorts) :
               /\ IsPermutation(Compiled.sorts[j].input,
                                Compiled.sorts[j].sorted_output)
               /\ NonDecreasing(Compiled.sorts[j].sorted_output)

StrictlyIncreasing(s) == \A i \in 1..(Len(s) - 1) : s[i] < s[i + 1]

\* C18: for each GROUP BY column compile emits exactly one GroupByOp, and
\* its group_keys are the distinct values of the column in strictly
\* increasing order, none missing and none repeated.
C18_GroupKeysUniqueSorted ==
    (Done("compile") /\ syn.outcome = "ok" /\ Len(args.query.group_by) = 1)
        => LET cols == args.query.group_by[1] IN
           /\ Len(Compiled.group_bys) = Len(cols)
           /\ \A j \in 1..Len(cols) :
                  /\ StrictlyIncreasing(Compiled.group_bys[j].group_keys)
                  /\ Elems(Compiled.group_bys[j].group_keys)
                         = Elems(ColumnOf(cols[j]))

\* C18 witness: a column with a repeated value out of order.
C18_Witness ==
    /\ Done("compile")
    /\ syn.outcome = "ok"
    /\ args.query.group_by = <<<<"age">>>>
    /\ ColumnOf("age") = <<50, 30, 50>>
    /\ Compiled.group_bys = <<GroupByOp(<<30, 50>>)>>

\* C19: every AggregationOp compile emits has as many group keys as
\* values, its group keys are non-decreasing, and aggregate_and_verify does
\* not reject it for a length mismatch, with and without GROUP BY.
C19_AggregationOpsWellFormed ==
    (Done("compile") /\ syn.outcome = "ok")
        => \A j \in 1..Len(Compiled.aggregations) :
               LET a == Compiled.aggregations[j] IN
               /\ Len(a.group_keys) = Len(a.values)
               /\ NonDecreasing(a.group_keys)
               /\ AggregateAndVerify(a.group_keys, a.values, a.agg_type,
                                     overflow_checks) # SynthesisError

\* The columns a WHERE clause names.
RECURSIVE WhereColumnsOf(_)
WhereColumnsOf(where_clause) ==
    IF where_clause.kind \in {"And", "Or"}
    THEN WhereColumnsOf(where_clause.left) \cup WhereColumnsOf(where_clause.right)
    ELSE {where_clause.column}

\* Every table and column the query names is in the catalog.
Resolves(query, table_data) ==
    /\ query.from \in DOMAIN table_data
    /\ \A w \in Elems(query.where_clause) :
           \A column \in WhereColumnsOf(w) :
               HasColumn(table_data, query.from, column)
    /\ \A l \in Elems(query.order_by) : \A o \in Elems(l) :
           HasColumn(table_data, query.from, o.column)
    /\ \A l \in Elems(query.group_by) : \A column \in Elems(l) :
           HasColumn(table_data, query.from, column)
    /\ \A l \in Elems(query.aggregations) : \A a \in Elems(l) :
           HasColumn(table_data, query.from, a.column)
    /\ \A l \in Elems(query.joins) : \A j \in Elems(l) :
           /\ HasColumn(table_data, query.from, j.on.left_column)
           /\ HasColumn(table_data, j.table, j.on.right_column)

\* C20: compile returns an error and no CompiledQuery whenever the FROM
\* table or a column named by WHERE, ORDER BY, GROUP BY, an aggregate or a
\* JOIN condition does not resolve, and returns Ok only when all resolve.
C20_UnresolvedNamesAreErrors ==
    Done("compile")
        => /\ ~Resolves(args.query, args.table_data)
                 => (syn.outcome = "error" /\ syn.compiled = <<>>)
           /\ syn.outcome = "ok" => Resolves(args.query, args.table_data)

\* C27: the result of compile is determined by the query and the catalog:
\* whatever order the maps of the catalog iterate in, the same call returns
\* the op vectors it returned, the value vectors of every JoinOp included;
\* and every JOIN clause yields one JoinOp keyed by the two columns of its
\* ON condition.
C27_CompileDeterministic ==
    Done("compile")
        => /\ \A first \in FirstColumns(args.table_data) :
                  syn = Compile(args.query, args.table_data, first,
                                overflow_checks)
           /\ (syn.outcome = "ok" /\ Len(args.query.joins) = 1)
                  => /\ Len(Compiled.joins) = Len(args.query.joins[1])
                     /\ \A i \in 1..Len(Compiled.joins) :
                            LET join == args.query.joins[1][i] IN
                            /\ Compiled.joins[i].table1_keys
                                   = ColumnOf(join.on.left_column)
                            /\ Compiled.joins[i].table2_keys
                                   = args.table_data[join.table][join.on.right_column]

---------------------------------------------------------------------------
(* Synthesis of the assembled circuit.                                     *)

\* The commitment and the query result the circuits are built with, and
\* the values a prover may claim in their place.
Commitments == {7, 8}

QueryResults == {6, 999}

\* Public inputs: one instance column with the commitment at row 0 and the
\* result at row 1.
PublicInputs == {<<<<c, r>>>> : c \in Commitments, r \in QueryResults}

RangeCheckVectors ==
    {<<>>,
     <<RangeCheckOp(30, 50, 20)>>,
     <<RangeCheckOp(30, 50, 20), RangeCheckOp(50, 50, 0)>>}

SortVectors ==
    {<<>>,
     <<SortOp(<<2, 1>>, <<1, 2>>)>>,
     <<SortOp(<<>>, <<>>)>>,
     <<SortOp(<<1>>, <<1>>), SortOp(<<2, 1>>, <<1, 2>>)>>}

GroupByVectors ==
    {<<>>, <<GroupByOp(<<1, 1, 2>>)>>, <<GroupByOp(<<>>), GroupByOp(<<1>>)>>}

JoinVectors == {<<>>, <<JoinOp(<<1, 2>>, <<7, 7>>, <<1, 2>>, <<7, 7>>)>>}

AggregationVectors ==
    {<<>>,
     <<AggregationOp(<<1, 1>>, <<5, 1>>, "sum")>>,
     <<AggregationOp(<<1, 2>>, <<5, 1>>, "count")>>,
     <<AggregationOp(<<1, 1>>, <<5, 1>>, "max"),
       AggregationOp(<<1, 1>>, <<5, 1>>, "min")>>,
     <<AggregationOp(<<>>, <<5>>, "sum"),
       AggregationOp(<<1, 1>>, <<5, 1>>, "sum")>>,
     <<AggregationOp(<<1>>, <<5>>, "avg"),
       AggregationOp(<<1, 1>>, <<5, 1>>, "sum")>>}

\* The circuits: every vector alone, and every join and aggregation
\* vector behind two range checks, two sorts and two group-bys.
Circuits ==
    {PoneglyphCircuit(7, 6, v, <<>>, <<>>, <<>>, <<>>) : v \in RangeCheckVectors}
      \cup {PoneglyphCircuit(7, 6, <<>>, v, <<>>, <<>>, <<>>) : v \in SortVectors}
      \cup {PoneglyphCircuit(7, 6, <<>>, <<>>, v, <<>>, <<>>) : v \in GroupByVectors}
      \cup {PoneglyphCircuit(7, 6, <<>>, <<>>, <<>>, v, <<>>) : v \in JoinVectors}
      \cup {PoneglyphCircuit(7, 6, <<>>, <<>>, <<>>, <<>>, v) :
               v \in AggregationVectors}
      \cup {PoneglyphCircuit(7, 6,
                             <<RangeCheckOp(30, 50, 20), RangeCheckOp(50, 50, 0)>>,
                             <<SortOp(<<1>>, <<1>>), SortOp(<<2, 1>>, <<1, 2>>)>>,
                             <<GroupByOp(<<>>), GroupByOp(<<1>>)>>,
                             joins, aggregations) :
               joins \in JoinVectors, aggregations \in AggregationVectors}

\* PoneglyphCircuit::synthesize is entered on a fresh layouter.
SynthesizeCall ==
    /\ pc = "idle"
    /\ \E circuit \in Circuits, public_inputs \in PublicInputs :
           /\ pc' = "load_lookup_table"
           /\ op' = "synthesize"
           /\ args' = SynthesizeArgs(circuit, public_inputs)
           /\ syn' = Synthesis("running", <<>>, {}, <<>>)
    /\ UNCHANGED overflow_checks

\* config.load_lookup_table(&mut layouter)?, the first statement.
LoadLookupTable ==
    /\ pc = "load_lookup_table"
    /\ pc' = Position(args.circuit, <<>>, 1)
    /\ syn' = Synthesis(IF Position(args.circuit, <<>>, 1) = "done"
                        THEN "ok" ELSE "running",
                        <<LookupTableRegion>>, {}, <<>>)
    /\ UNCHANGED <<op, args, overflow_checks>>

\* One iteration of a loop of synthesize: the chip call on the next op of
\* the vector and the ? on its result.
GateStep(kind) ==
    /\ \E result \in {GateInvocation(args.circuit, kind,
                                      Invoked(syn.ret, kind) + 1,
                                      overflow_checks, Len(syn.regions))} :
           \E pass \in {AfterInvocation(args.circuit, syn, kind, result)} :
               /\ syn' = pass
               /\ pc' = IF pass.outcome = "running"
                        THEN Position(args.circuit, pass.ret, 1) ELSE "done"
    /\ UNCHANGED <<op, args, overflow_checks>>

RangeCheckStep ==
    /\ pc = "range_checks"
    /\ GateStep("range_checks")

SortStep ==
    /\ pc = "sorts"
    /\ GateStep("sorts")

GroupByStep ==
    /\ pc = "group_bys"
    /\ GateStep("group_bys")

JoinStep ==
    /\ pc = "joins"
    /\ GateStep("joins")

AggregationStep ==
    /\ pc = "aggregations"
    /\ GateStep("aggregations")

\* PoneglyphConfig::get_public_input_layout on a commitment and a result.
GetPublicInputLayoutCall ==
    /\ pc = "idle"
    /\ \E db_commitment \in Commitments, query_result \in QueryResults :
           Invoke("get_public_input_layout",
                  PublicInputArgs(db_commitment, query_result),
                  Synthesis("ok", <<>>, {},
                            GetPublicInputLayout(db_commitment, query_result)))

NextSynthesize ==
    \/ SynthesizeCall
    \/ LoadLookupTable
    \/ RangeCheckStep
    \/ SortStep
    \/ GroupByStep
    \/ JoinStep
    \/ AggregationStep
    \/ GetPublicInputLayoutCall
    \/ Return

SpecSynthesize == Init /\ [][NextSynthesize]_vars

\* C21: instance row 0 is bound to the circuit's database commitment and
\* row 1 to its query result: a pass whose public inputs differ from the
\* circuit's commitment or result does not verify.
C21_PublicInputsBindTheProof ==
    (Done("synthesize")
       /\ (\/ args.public_inputs[1][1] # args.circuit.db_commitment
           \/ args.public_inputs[1][2] # args.circuit.query_result))
        => ~Verifies

\* C22: get_public_input_layout returns one column vector of two rows, the
\* commitment at row 0 and the result at row 1.
C22_LayoutIsOneColumnOfTwoRows ==
    Done("get_public_input_layout")
        => syn.ret = <<<<args.db_commitment, args.query_result>>>>

\* The selectors of the Range Check gate and lookups.
RangeCheckSelectors ==
    {RangeCheckConfig.selector, RangeCheckConfig.less_than_selector,
     RangeCheckConfig.decomposition_selector,
     RangeCheckConfig.diff_lookup_selector}

\* The regions the Group-By, Join and Aggregation chips assign themselves.
GateRegionNames ==
    {"group and verify", "assign join"}
      \cup {AggregateRegionName(agg_type) : agg_type \in AggTypes}

\* C24: in the assembled circuit no row written by Group-By, Join or
\* Aggregation enables a selector of a Range Check constraint
\* (decomposition sum, x < t gate, chunk lookup or diff lookup).
C24_GateRowsEnableNoRangeCheck ==
    (pc # "idle" /\ op = "synthesize")
        => \A k \in 1..Len(syn.regions) :
               syn.regions[k].name \in GateRegionNames
                   => \A sr \in syn.regions[k].selectors :
                          sr[1] \notin RangeCheckSelectors

\* A pass is past the loading of the lookup table.
TableLoaded == op = "synthesize" /\ pc \notin {"idle", "load_lookup_table"}

\* C25: in every pass the lookup table is loaded once, before any gate
\* region is assigned; it holds the 256 values 0..255, value i at row i,
\* and no gate invocation writes to the table column afterwards.
C25_LookupTableLoadedOnceFirst ==
    /\ (op = "synthesize" /\ pc = "load_lookup_table") => syn.regions = <<>>
    /\ TableLoaded
           => /\ Len(syn.regions) >= 1
              /\ syn.regions[1].name = "8-bit lookup table (0-255)"
              /\ DOMAIN syn.regions[1].fixed
                     = {<<LookupTableColumn, i>> : i \in 0..255}
              /\ \A i \in 0..255 :
                     syn.regions[1].fixed[<<LookupTableColumn, i>>] = i
              /\ \A k \in 2..Len(syn.regions) :
                     /\ syn.regions[k].name # "8-bit lookup table (0-255)"
                     /\ \A c \in DOMAIN syn.regions[k].fixed :
                            c[1] # LookupTableColumn

\* C25 witness: a pass that ended with ok after gate invocations of three
\* kinds.
C25_Witness ==
    /\ Done("synthesize")
    /\ syn.outcome = "ok"
    /\ Cardinality({syn.ret[i][1] : i \in 1..Len(syn.ret)}) >= 3
    /\ Len(syn.regions) > Len(syn.ret)

\* The invocations of a pass that runs to its end: every range check,
\* every sort, every group-by, every join and every aggregation, each
\* vector in index order.
ExpectedLog(circuit) ==
    [i \in 1..Len(circuit.range_checks) |-> <<"range_checks", i>>]
      \o [i \in 1..Len(circuit.sorts) |-> <<"sorts", i>>]
      \o [i \in 1..Len(circuit.group_bys) |-> <<"group_bys", i>>]
      \o [i \in 1..Len(circuit.joins) |-> <<"joins", i>>]
      \o [i \in 1..Len(circuit.aggregations) |-> <<"aggregations", i>>]

\* The outcome of the chip call of an invocation, taken alone.
OutcomeOf(circuit, invocation, checks) ==
    GateInvocation(circuit, invocation[1], invocation[2], checks, 0).outcome

\* C26: the invocations of a pass are an initial part of: every range
\* check, every sort, every group-by, every join, every aggregation, each
\* in index order and once; a pass that ends with ok has made all of them,
\* and a pass ends with an error exactly at the first invocation that
\* returns one, with no later op invoked.
C26_SequentialWalk ==
    (op = "synthesize" /\ pc # "idle")
        => LET expected == ExpectedLog(args.circuit)
               n        == Len(syn.ret)
           IN  /\ n <= Len(expected)
               /\ syn.ret = SubSeq(expected, 1, n)
               /\ (pc = "done" /\ syn.outcome = "ok") => n = Len(expected)
               /\ pc \notin {"done", "load_lookup_table"}
                      => /\ syn.outcome = "running"
                         /\ n < Len(expected)
                         /\ pc = expected[n + 1][1]
               /\ \A j \in 1..(n - 1) :
                      OutcomeOf(args.circuit, syn.ret[j], overflow_checks) = "ok"
               /\ (pc = "done" /\ syn.outcome # "ok")
                      => /\ n >= 1
                         /\ OutcomeOf(args.circuit, syn.ret[n], overflow_checks)
                                = syn.outcome

\* C26 witness: a pass aborted by an error of an aggregation after range
\* checks, sorts and group-bys, with an aggregation left that is not
\* invoked.
C26_Witness ==
    /\ Done("synthesize")
    /\ syn.outcome = "error"
    /\ Len(syn.ret) >= 7
    /\ syn.ret[Len(syn.ret)][1] = "aggregations"
    /\ Len(syn.ret) < Len(ExpectedLog(args.circuit))

---------------------------------------------------------------------------
(* Database commitment invocations.                                        *)

\* Keys and values of the committed pairs: small words, the multiplier of
\* the hash and the largest word.
DataKeys == {0, 1, U64Max}

DataValues == {0, 1000000}

DataLists == SeqsUpTo(DataKeys \X DataValues, MaxDataLen)

\* DatabaseCommitment::new on a list, and on the list of a second call.
NewCommitmentCall ==
    /\ pc = "idle"
    /\ \E data \in DataLists, other \in DataLists :
           Invoke("new", CommitmentArgs(data, other),
                  Synthesis("ok", <<>>, {},
                            <<NewDatabaseCommitment(data),
                              NewDatabaseCommitment(other)>>))

\* verify on the commitment of a list, against a list.
VerifyCommitmentCall ==
    /\ pc = "idle"
    /\ \E data \in DataLists, other \in DataLists :
           Invoke("verify", CommitmentArgs(data, other),
                  Synthesis("ok", <<>>, {},
                            <<NewDatabaseCommitment(data),
                              VerifyCommitment(NewDatabaseCommitment(data),
                                               other)>>))

\* commitment() on the commitment of a list.
CommitmentValueCall ==
    /\ pc = "idle"
    /\ \E data \in DataLists :
           Invoke("commitment", CommitmentArgs(data, data),
                  Synthesis("ok", <<>>, {},
                            <<NewDatabaseCommitment(data),
                              CommitmentValue(NewDatabaseCommitment(data))>>))

NextDatabase ==
    \/ NewCommitmentCall
    \/ VerifyCommitmentCall
    \/ CommitmentValueCall
    \/ Return

SpecDatabase == Init /\ [][NextDatabase]_vars

\* C23: new on equal lists yields equal commitment values, commitment()
\* is the stored data hash, and the commitment of a list verifies the
\* list.
C23_CommitmentDeterministic ==
    /\ (Done("new") /\ args.data = args.other)
           => syn.ret[1].commitment = syn.ret[2].commitment
    /\ Done("commitment") => syn.ret[2] = syn.ret[1].data_hash
    /\ (Done("verify") /\ args.data = args.other) => syn.ret[2] = TRUE

\* C23 witness: a commitment of two pairs verifies its list and its
\* value is the hash of the list.
C23_Witness ==
    /\ Done("verify")
    /\ args.data = args.other
    /\ Len(args.data) = 2
    /\ syn.ret[2] = TRUE
    /\ syn.ret[1].commitment = syn.ret[1].data_hash
    /\ syn.ret[1].commitment # 0

---------------------------------------------------------------------------
(* Batch proving invocations.                                              *)

\* A circuit that proves, one whose second op returns an error and one
\* whose sort panics.
BatchCircuits ==
    {PoneglyphCircuit(7, 6, <<RangeCheckOp(30, 50, 20)>>, <<>>, <<>>, <<>>, <<>>),
     PoneglyphCircuit(7, 6, <<RangeCheckOp(30, 50, 20)>>, <<>>, <<>>, <<>>,
                      <<AggregationOp(<<>>, <<5>>, "sum")>>),
     PoneglyphCircuit(7, 6, <<>>, <<SortOp(<<>>, <<>>)>>, <<>>, <<>>, <<>>)}

\* The public inputs of one circuit: the one instance column the circuit
\* has, and the two vectors of get_public_input_layout.
BatchPublicInputs == {<<<<7, 6>>>>, GetPublicInputLayout(7, 6)}

\* What OsRng may yield.
Rngs == {0, 1}

\* let mut all_proofs = Vec::new(), and the loop is entered.
ProveBatchCall ==
    /\ pc = "idle"
    /\ \E circuits \in SeqsUpTo(BatchCircuits, MaxBatchLen),
          public_inputs \in SeqsUpTo(BatchPublicInputs, MaxBatchLen) :
           /\ pc' = IF Len(circuits) = 0 THEN "concat" ELSE "prove"
           /\ op' = "prove_batch"
           /\ args' = BatchArgs(circuits, public_inputs)
           /\ syn' = Batch("running", <<>>, <<>>)
    /\ UNCHANGED overflow_checks

\* One iteration of the loop: the proof of the next circuit, the ? on it
\* and the push.
ProveStep ==
    /\ pc = "prove"
    /\ \E rng \in Rngs :
           \E result \in {Prove(args.circuits[Len(syn.all_proofs) + 1],
                                BatchInputs(args.public_inputs,
                                            Len(syn.all_proofs) + 1),
                                rng, overflow_checks)} :
               IF result.outcome = "ok"
               THEN /\ syn' = Batch("running", <<>>,
                                    Append(syn.all_proofs, result.proof))
                    /\ pc' = IF Len(syn.all_proofs) + 1 = Len(args.circuits)
                             THEN "concat" ELSE "prove"
               ELSE /\ syn' = Batch(result.outcome, <<>>, syn.all_proofs)
                    /\ pc' = "done"
    /\ UNCHANGED <<op, args, overflow_checks>>

\* Ok(all_proofs.concat()).
ConcatProofs ==
    /\ pc = "concat"
    /\ pc' = "done"
    /\ syn' = Batch("ok", Concat(syn.all_proofs), syn.all_proofs)
    /\ UNCHANGED <<op, args, overflow_checks>>

NextBatch ==
    \/ ProveBatchCall
    \/ ProveStep
    \/ ConcatProofs
    \/ Return

SpecBatch == Init /\ [][NextBatch]_vars

\* The number of symbols of the first i vectors.
RECURSIVE LenOfFirst(_, _)
LenOfFirst(vectors, i) ==
    IF i = 0 THEN 0 ELSE LenOfFirst(vectors, i - 1) + Len(vectors[i])

\* Proof number i made by the run is a proof of circuit i on its inputs.
IsProofOf(i) ==
    \E rng \in Rngs :
        Proved("ok", syn.all_proofs[i])
            = Prove(args.circuits[i], BatchInputs(args.public_inputs, i), rng,
                    overflow_checks)

\* C30: prove_batch proves the circuits in order; when every proof
\* succeeds it returns the proofs joined in circuit order; when a proof
\* fails it ends at once with that failure, returns no byte and proves no
\* later circuit.
C30_BatchAllOrNothing ==
    (op = "prove_batch" /\ pc # "idle")
        => LET n == Len(syn.all_proofs) IN
           /\ n <= Len(args.circuits)
           /\ \A i \in 1..n : IsProofOf(i)
           /\ pc # "done" => (syn.outcome = "running" /\ syn.ret = <<>>)
           /\ (pc = "done" /\ syn.outcome = "ok")
                  => /\ n = Len(args.circuits)
                     /\ Len(syn.ret) = LenOfFirst(syn.all_proofs, n)
                     /\ \A i \in 1..n :
                            SubSeq(syn.ret,
                                   LenOfFirst(syn.all_proofs, i - 1) + 1,
                                   LenOfFirst(syn.all_proofs, i))
                                = syn.all_proofs[i]
           /\ (pc = "done" /\ syn.outcome # "ok")
                  => /\ syn.ret = <<>>
                     /\ n < Len(args.circuits)
                     /\ \A rng \in Rngs :
                            Prove(args.circuits[n + 1],
                                  BatchInputs(args.public_inputs, n + 1), rng,
                                  overflow_checks).outcome = syn.outcome

\* C30 witness: a batch of three circuits has ended with the error of the
\* second, after the proof of the first and with the third not proved.
C30_Witness ==
    /\ Done("prove_batch")
    /\ Len(args.circuits) = 3
    /\ syn.outcome = "error"
    /\ Len(syn.all_proofs) = 1
    /\ syn.ret = <<>>

====
